---- MODULE Spec2Model ----
(***************************************************************************)
(* 0DTE bull put spread backtester: the Spread Finder                      *)
(* (SpreadSelector.find_spread), the live-metrics function                 *)
(* (SpreadSelector.calculate_current_spread_metrics), the trade simulator  *)
(* (ZeroDTEBacktester._execute_single_trade / _check_exit_conditions) and  *)
(* the orchestrator loop (ZeroDTEBacktester.run).                          *)
(*                                                                         *)
(* Units.  Money is in cents (a mid-price 1.20 is 120, a strike 570.0 is   *)
(* 57000), a delta is in hundredths (-0.30 is -30), a timestamp is a whole *)
(* number of minutes (the data is the 1-minute "cbbo-1m" schema), and      *)
(* theoretical_pnl is (credit - price) * 100 with credit and price in      *)
(* cents, i.e. the dollar amount in cents (65.00 is 6500).  Arithmetic is  *)
(* exact: binary floating-point rounding is not modelled.                  *)
(*                                                                         *)
(* An optional value (Python None or a value) is <<>> or <<v>>.            *)
(***************************************************************************)
EXTENDS Integers, Sequences, FiniteSets, TLC

\* ---------------------------------------------------------------- bounds
\* timestamps are 1..MaxT (minutes of one trading session)
MaxT == 3
\* run(max_iterations) is drawn from -1..MaxIterations
MaxIterations == 2

\* ------------------------------------------------------ program constants
\* the x100 per-contract multiplier of every payoff formula
ContractMultiplier == 100
\* pd.Timedelta(minutes=1) added to exit_time
OneMinute == 1
\* target_profit_percentage = 0.5, as a percentage
TargetProfitPct == 50
\* delta_stop_loss_multiplier = 2.5, in tenths
StopLossTenths == 25

None == <<>>
Some(v) == <<v>>
Abs(x) == IF x < 0 THEN -x ELSE x
SetMin(S) == CHOOSE x \in S : \A y \in S : x <= y
SetMax(S) == CHOOSE x \in S : \A y \in S : y <= x

\* Python truthiness of the entries of all([...]): None and 0 / 0.0 are falsy
Truthy(o) == o # None /\ o[1] # 0

\* ------------------------------------------------------------ input data
\* OCC symbols of one expiration, named by their 8-digit strike field
\* (SPY......P00570000 and SPY......P00567000)
Symbols == {570000, 567000}
\* the digits in front of the strike field stand for the expiration (YYMMDD)
StrikeField == 100000000
\* OptionUtils.extract_strike_price: float(symbol[-8:]) / 1000.0, in cents
extract_strike_price(symbol) == ((symbol % StrikeField) * 100) \div 1000
\* mid-prices (bid + ask) / 2 in cents, in the streams run() replays
Mids == {65, 120}
\* mid-prices in the inputs of EvalSpec: a quote of 0.00 (bid = ask = 0) too
EvalMids == Mids \cup {0}
\* what the implied-volatility inversion followed by the d1 formula yields
\* for a quote: a delta in hundredths, or None when brentq finds no root
IvDeltas == {None, Some(-30), Some(-25)}
\* stock_close_by_timestamp.get(timestamp): absent or the bar close in cents
Underlyings == {None, Some(56800)}
\* in the inputs of EvalSpec: a bar close exactly at the lower strike too
EvalUnderlyings == Underlyings \cup {Some(56700)}
\* market close of the expiration day (16:00 New York): the last minute of
\* the requested window (13:30-20:00 UTC) in summer, after it in winter
Expiries == {MaxT, MaxT + 1}

Timestamps == 1..MaxT

\* data_client.get_comprehensive_historical_data: one combined tick
MakeTick(symbol, ts, mid, und, ivd, exp) ==
  [option_symbol |-> symbol, timestamp |-> ts, midpoint |-> mid,
   strike_price |-> extract_strike_price(symbol), expiry |-> exp,
   underlying_close |-> und, ivd |-> ivd]

\* a timestamp group: one quote per symbol and minute, in any order, every
\* tick carrying the same stock_close_by_timestamp.get(timestamp)
Orders(S) ==
  {q \in UNION {[1..n -> S] : n \in 1..Cardinality(S)} :
     \A i, j \in DOMAIN q : i # j => q[i] # q[j]}
Groups(ts, exp) ==
  UNION {
    UNION {
      {[i \in DOMAIN o |-> MakeTick(o[i], ts, m[i], und, d[i], exp)] :
           m \in [DOMAIN o -> Mids], d \in [DOMAIN o -> IvDeltas]}
      : o \in Orders(Symbols)}
    : und \in Underlyings}

\* ----------------------------------------------------------- configuration
\* the defaults of ZeroDTEBacktester.__init__: (-0.60, -0.20), (-0.40, -0.20)
\* and (2, 4)
DefaultShortBand == <<-60, -20>>
DefaultLongBand == <<-40, -20>>
DefaultWidthRange == <<200, 400>>
\* the configurations explored: with the second short band a delta of -0.25
\* is in the long band only and a delta of -0.30 is exactly on the band's
\* upper end; with the second width range a width of 0 passes
ShortBands == {DefaultShortBand, <<-60, -30>>}
LongBands == {DefaultLongBand}
WidthRanges == {DefaultWidthRange, <<0, 400>>}

VARIABLES
  cfg,         \* constructor arguments and run()'s max_iterations
  keys,        \* self.historical_data.keys()
  market_close_utc,  \* the expiry of the session's options
  pc,          \* position of run(): start, loop, find, monitor, done
  current_start_time,
  iteration,
  results,     \* self.results
  reason,      \* why the while loop of run() was left
  scan,        \* the timestamp the finder / the monitor loop is at
  group_und,   \* underlying_close of the group the finder is scanning
  seen,        \* symbols of that group already visited
  short_put,   \* find_spread's candidate slots
  long_put,
  spread,      \* the spread _execute_single_trade is monitoring
  eval_data,   \* EvalSpec: the tick group handed to the metrics function
  eval_metrics, \* EvalSpec: what calculate_current_spread_metrics returned
  eval_exit,   \* EvalSpec: what _check_exit_conditions returned
  last_tick,   \* FinderSpec: the tick find_spread examined last
  fresh,       \* FinderSpec: <<symbol, timestamp, slot>> of the ticks
               \* examined since the slots were last emptied
  first_short, \* FinderSpec: the leg of the first tick since then whose
               \* delta was in the short band
  last_long,   \* FinderSpec: the leg of the latest tick since then that
               \* was assigned to the long slot
  tape,        \* DetSpec: the tick sub-stream, by timestamp
  outcomes,    \* DetSpec: what the earlier calls returned
  px,          \* PricingSpec: the arguments and the results of one call
  watched,     \* TradeSpec: the timestamps the monitor loop has visited
  found        \* the number of Spreads find_spread has returned

evalvars == <<eval_data, eval_metrics, eval_exit>>
findervars == <<last_tick, fresh, first_short, last_long>>
auxvars == <<findervars, tape, outcomes, px, watched, found>>
vars == <<cfg, keys, market_close_utc, pc, current_start_time, iteration, results, reason,
          scan, group_und, seen, short_put, long_put, spread,
          evalvars, auxvars>>

\* ----------------------------------------------------------- pricing engine
\* Times to expiry are in milliseconds: the floor 1e-6 years is 31536 ms.
\* In the pricing engine's own specification (PricingSpec) an option price
\* is in millionths of a dollar, a volatility in millionths, a delta in
\* ten-thousandths and the rate in percent.
TimeFloor == 31536
MsPerMinute == 60000
\* T = max(T, 1e-6)
TimeToExpiry(ms) == IF ms > TimeFloor THEN ms ELSE TimeFloor

\* a variant whose put indicator counts underlying = strike as in the money
delta_at_inclusive(ivd, strike_price, T, underlying_price, option_type, unit) ==
  IF T = TimeFloor
  THEN IF option_type = "put"
       THEN Some(IF underlying_price <= strike_price THEN -unit ELSE 0)
       ELSE Some(IF underlying_price > strike_price THEN unit ELSE 0)
  ELSE ivd

\* OptionUtils.calculate_delta from "if T == 1e-6" on, T being floored
\* already; ivd is what the implied-volatility branch (lines 181-190)
\* yields and unit is the number that stands for a delta of 1.0
delta_at(ivd, strike_price, T, underlying_price, option_type, unit) ==
  IF T = TimeFloor
  THEN IF option_type = "put"
       THEN Some(IF underlying_price < strike_price THEN -unit ELSE 0)
       ELSE Some(IF underlying_price > strike_price THEN unit ELSE 0)
  ELSE ivd

\* OptionUtils.calculate_delta with timestamps in whole minutes and deltas
\* in hundredths
calculate_delta(ivd, strike_price, expiry_timestamp, underlying_price, option_type, current_timestamp) ==
  delta_at(ivd, strike_price,
           TimeToExpiry((expiry_timestamp - current_timestamp) * MsPerMinute),
           underlying_price, option_type, 100)

\* the 1e-6 of "option_price <= intrinsic_value + 1e-6"
PriceEpsilon == 1
sigma_lower == 1
sigma_upper == 5000000
\* the volatilities at which the pricing formula is tabulated
SigmaGrid == {1, 50000, 200000, 1000000, 5000000}
\* S of the tabulated quotes, in cents
PricingUnderlying == 56800
\* The Black-Scholes formula of option_price_diff (d1, d2, call and put
\* price) and norm.cdf(d1) of calculate_delta, evaluated at S = 568.00 for
\* the strikes 567, 568 and 570, one minute and two hours to expiry, rates
\* 0 and 1 percent: prices rounded to millionths, norm.cdf(d1) to
\* ten-thousandths.
BSRows ==
  {[sigma |-> 1, K |-> 56700, T |-> 60000, r |-> 0, call |-> 1000000, put |-> 0, cdf_d1 |-> 10000],
   [sigma |-> 50000, K |-> 56700, T |-> 60000, r |-> 0, call |-> 1000000, put |-> 0, cdf_d1 |-> 10000],
   [sigma |-> 200000, K |-> 56700, T |-> 60000, r |-> 0, call |-> 1000000, put |-> 0, cdf_d1 |-> 10000],
   [sigma |-> 1000000, K |-> 56700, T |-> 60000, r |-> 0, call |-> 1037377, put |-> 37377, cdf_d1 |-> 8994],
   [sigma |-> 5000000, K |-> 56700, T |-> 60000, r |-> 0, call |-> 2112101, put |-> 1112101, cdf_d1 |-> 6022],
   [sigma |-> 1, K |-> 56700, T |-> 60000, r |-> 1, call |-> 1000011, put |-> 0, cdf_d1 |-> 10000],
   [sigma |-> 50000, K |-> 56700, T |-> 60000, r |-> 1, call |-> 1000011, put |-> 0, cdf_d1 |-> 10000],
   [sigma |-> 200000, K |-> 56700, T |-> 60000, r |-> 1, call |-> 1000011, put |-> 0, cdf_d1 |-> 10000],
   [sigma |-> 1000000, K |-> 56700, T |-> 60000, r |-> 1, call |-> 1037387, put |-> 37376, cdf_d1 |-> 8994],
   [sigma |-> 5000000, K |-> 56700, T |-> 60000, r |-> 1, call |-> 2112107, put |-> 1112097, cdf_d1 |-> 6022],
   [sigma |-> 1, K |-> 56700, T |-> 7200000, r |-> 0, call |-> 1000000, put |-> 0, cdf_d1 |-> 10000],
   [sigma |-> 50000, K |-> 56700, T |-> 7200000, r |-> 0, call |-> 1001427, put |-> 1427, cdf_d1 |-> 9902],
   [sigma |-> 200000, K |-> 56700, T |-> 7200000, r |-> 0, call |-> 1297302, put |-> 297302, cdf_d1 |-> 7206],
   [sigma |-> 1000000, K |-> 56700, T |-> 7200000, r |-> 0, call |-> 3944091, put |-> 2944091, cdf_d1 |-> 5494],
   [sigma |-> 5000000, K |-> 56700, T |-> 7200000, r |-> 0, call |-> 17605023, put |-> 16605023, cdf_d1 |-> 5244],
   [sigma |-> 1, K |-> 56700, T |-> 7200000, r |-> 1, call |-> 1001295, put |-> 0, cdf_d1 |-> 10000],
   [sigma |-> 50000, K |-> 56700, T |-> 7200000, r |-> 1, call |-> 1002709, put |-> 1414, cdf_d1 |-> 9902],
   [sigma |-> 200000, K |-> 56700, T |-> 7200000, r |-> 1, call |-> 1298233, put |-> 296939, cdf_d1 |-> 7208],
   [sigma |-> 1000000, K |-> 56700, T |-> 7200000, r |-> 1, call |-> 3944794, put |-> 2943500, cdf_d1 |-> 5495],
   [sigma |-> 5000000, K |-> 56700, T |-> 7200000, r |-> 1, call |-> 17605663, put |-> 16604368, cdf_d1 |-> 5244],
   [sigma |-> 1, K |-> 56800, T |-> 60000, r |-> 0, call |-> 0, put |-> 0, cdf_d1 |-> 5000],
   [sigma |-> 50000, K |-> 56800, T |-> 60000, r |-> 0, call |-> 15628, put |-> 15628, cdf_d1 |-> 5000],
   [sigma |-> 200000, K |-> 56800, T |-> 60000, r |-> 0, call |-> 62512, put |-> 62512, cdf_d1 |-> 5001],
   [sigma |-> 1000000, K |-> 56800, T |-> 60000, r |-> 0, call |-> 312558, put |-> 312558, cdf_d1 |-> 5003],
   [sigma |-> 5000000, K |-> 56800, T |-> 60000, r |-> 0, call |-> 1562787, put |-> 1562787, cdf_d1 |-> 5014],
   [sigma |-> 1, K |-> 56800, T |-> 60000, r |-> 1, call |-> 11, put |-> 0, cdf_d1 |-> 10000],
   [sigma |-> 50000, K |-> 56800, T |-> 60000, r |-> 1, call |-> 15633, put |-> 15623, cdf_d1 |-> 5001],
   [sigma |-> 200000, K |-> 56800, T |-> 60000, r |-> 1, call |-> 62517, put |-> 62506, cdf_d1 |-> 5001],
   [sigma |-> 1000000, K |-> 56800, T |-> 60000, r |-> 1, call |-> 312563, put |-> 312553, cdf_d1 |-> 5003],
   [sigma |-> 5000000, K |-> 56800, T |-> 60000, r |-> 1, call |-> 1562793, put |-> 1562782, cdf_d1 |-> 5014],
   [sigma |-> 1, K |-> 56800, T |-> 7200000, r |-> 0, call |-> 3, put |-> 3, cdf_d1 |-> 5000],
   [sigma |-> 50000, K |-> 56800, T |-> 7200000, r |-> 0, call |-> 171195, put |-> 171195, cdf_d1 |-> 5002],
   [sigma |-> 200000, K |-> 56800, T |-> 7200000, r |-> 0, call |-> 684780, put |-> 684780, cdf_d1 |-> 5006],
   [sigma |-> 1000000, K |-> 56800, T |-> 7200000, r |-> 0, call |-> 3423870, put |-> 3423870, cdf_d1 |-> 5030],
   [sigma |-> 5000000, K |-> 56800, T |-> 7200000, r |-> 0, call |-> 17115440, put |-> 17115440, cdf_d1 |-> 5151],
   [sigma |-> 1, K |-> 56800, T |-> 7200000, r |-> 1, call |-> 1297, put |-> 0, cdf_d1 |-> 10000],
   [sigma |-> 50000, K |-> 56800, T |-> 7200000, r |-> 1, call |-> 171844, put |-> 170547, cdf_d1 |-> 5014],
   [sigma |-> 200000, K |-> 56800, T |-> 7200000, r |-> 1, call |-> 685428, put |-> 684131, cdf_d1 |-> 5009],
   [sigma |-> 1000000, K |-> 56800, T |-> 7200000, r |-> 1, call |-> 3424514, put |-> 3423217, cdf_d1 |-> 5031],
   [sigma |-> 5000000, K |-> 56800, T |-> 7200000, r |-> 1, call |-> 17116069, put |-> 17114772, cdf_d1 |-> 5151],
   [sigma |-> 1, K |-> 57000, T |-> 60000, r |-> 0, call |-> 0, put |-> 2000000, cdf_d1 |-> 0],
   [sigma |-> 50000, K |-> 57000, T |-> 60000, r |-> 0, call |-> 0, put |-> 2000000, cdf_d1 |-> 0],
   [sigma |-> 200000, K |-> 57000, T |-> 60000, r |-> 0, call |-> 0, put |-> 2000000, cdf_d1 |-> 0],
   [sigma |-> 1000000, K |-> 57000, T |-> 60000, r |-> 0, call |-> 1353, put |-> 2001353, cdf_d1 |-> 54],
   [sigma |-> 5000000, K |-> 57000, T |-> 60000, r |-> 0, call |-> 764571, put |-> 2764571, cdf_d1 |-> 3064],
   [sigma |-> 1, K |-> 57000, T |-> 60000, r |-> 1, call |-> 0, put |-> 1999989, cdf_d1 |-> 0],
   [sigma |-> 50000, K |-> 57000, T |-> 60000, r |-> 1, call |-> 0, put |-> 1999989, cdf_d1 |-> 0],
   [sigma |-> 200000, K |-> 57000, T |-> 60000, r |-> 1, call |-> 0, put |-> 1999989, cdf_d1 |-> 0],
   [sigma |-> 1000000, K |-> 57000, T |-> 60000, r |-> 1, call |-> 1353, put |-> 2001342, cdf_d1 |-> 54],
   [sigma |-> 5000000, K |-> 57000, T |-> 60000, r |-> 1, call |-> 764574, put |-> 2764563, cdf_d1 |-> 3064],
   [sigma |-> 1, K |-> 57000, T |-> 7200000, r |-> 0, call |-> 0, put |-> 2000000, cdf_d1 |-> 0],
   [sigma |-> 50000, K |-> 57000, T |-> 7200000, r |-> 0, call |-> 0, put |-> 2000000, cdf_d1 |-> 0],
   [sigma |-> 200000, K |-> 57000, T |-> 7200000, r |-> 0, call |-> 103996, put |-> 2103996, cdf_d1 |-> 1227],
   [sigma |-> 1000000, K |-> 57000, T |-> 7200000, r |-> 0, call |-> 2522282, put |-> 4522282, cdf_d1 |-> 4110],
   [sigma |-> 5000000, K |-> 57000, T |-> 7200000, r |-> 0, call |-> 16164117, put |-> 18164117, cdf_d1 |-> 4965],
   [sigma |-> 1, K |-> 57000, T |-> 7200000, r |-> 1, call |-> 0, put |-> 1998699, cdf_d1 |-> 0],
   [sigma |-> 50000, K |-> 57000, T |-> 7200000, r |-> 1, call |-> 0, put |-> 1998699, cdf_d1 |-> 0],
   [sigma |-> 200000, K |-> 57000, T |-> 7200000, r |-> 1, call |-> 104155, put |-> 2102853, cdf_d1 |-> 1229],
   [sigma |-> 1000000, K |-> 57000, T |-> 7200000, r |-> 1, call |-> 2522810, put |-> 4521508, cdf_d1 |-> 4110],
   [sigma |-> 5000000, K |-> 57000, T |-> 7200000, r |-> 1, call |-> 16164724, put |-> 18163423, cdf_d1 |-> 4965]}

BSRow(sigma, K, T, r) ==
  CHOOSE row \in BSRows :
    row.sigma = sigma /\ row.K = K /\ row.T = T /\ row.r = r
BSPrice(sigma, K, T, r, option_type) ==
  IF option_type = "call" THEN BSRow(sigma, K, T, r).call
  ELSE BSRow(sigma, K, T, r).put

\* intrinsic_value = max(0, (S - K) if call else (K - S)), in millionths
intrinsic_value(S, K, option_type) ==
  LET v == IF option_type = "call" THEN S - K ELSE K - S
  IN IF v > 0 THEN v * 10000 ELSE 0

\* scipy.optimize.brentq on option_price_diff over [a, b], on the grid: a
\* ValueError (caught: None) when f(a) and f(b) have the same sign, a or b
\* when f vanishes there, otherwise a point where f vanishes or changes sign
brentq(option_price, K, T, r, option_type, a, b) ==
  LET f(x) == BSPrice(x, K, T, r, option_type) - option_price
      G == {x \in SigmaGrid : a <= x /\ x <= b}
      zeros == {x \in G : f(x) = 0}
      crossings == {x \in G : \E y \in G : /\ y > x
                                           /\ \A z \in G : ~ (x < z /\ z < y)
                                           /\ f(x) < 0
                                           /\ f(y) > 0}
  IN IF (f(a) > 0 /\ f(b) > 0) \/ (f(a) < 0 /\ f(b) < 0) THEN {None}
     ELSE IF f(a) = 0 THEN {Some(a)}
     ELSE IF f(b) = 0 THEN {Some(b)}
     ELSE {Some(x) : x \in zeros \cup crossings}

\* a variant that brackets the root from 0.2 instead of 1e-6
calculate_implied_volatility_narrow(option_price, S, K, T, r, option_type) ==
  IF option_price <= intrinsic_value(S, K, option_type) + PriceEpsilon
  THEN {Some(0)}
  ELSE brentq(option_price, K, T, r, option_type, 200000, sigma_upper)

\* OptionUtils.calculate_implied_volatility: the values it can return
calculate_implied_volatility(option_price, S, K, T, r, option_type) ==
  IF option_price <= intrinsic_value(S, K, option_type) + PriceEpsilon
  THEN {Some(0)}
  ELSE brentq(option_price, K, T, r, option_type, sigma_lower, sigma_upper)

\* a float that is not a number: a value outside every range of deltas
NaN == 99999
\* the sign of the numerator of d1 at zero volatility, log(S / K) + r * T:
\* that of S - K when the two differ (r * T is below 1e-5 for a rate of a
\* few percent and less than a day, log(S / K) above it for prices in cents
\* around 500), otherwise that of r
D1NumeratorSign(S, K, r) ==
  IF S > K THEN 1 ELSE IF S < K THEN -1
  ELSE IF r > 0 THEN 1 ELSE IF r < 0 THEN -1 ELSE 0
\* implied_volatility * np.sqrt(T), as zero or not
D1DenominatorIsZero(sigma, T) == sigma = 0 \/ T = 0

\* a variant that forgets the minus sign of the put delta
delta_from_volatility_unsigned(sigma, S, K, T, r, option_type) ==
  IF D1DenominatorIsZero(sigma, T)
  THEN LET sgn == D1NumeratorSign(S, K, r) IN
       IF sgn = 0 THEN NaN
       ELSE IF option_type = "call" THEN (IF sgn > 0 THEN 10000 ELSE 0)
       ELSE (IF sgn > 0 THEN 0 ELSE 10000)
  ELSE IF option_type = "call" THEN BSRow(sigma, K, T, r).cdf_d1
  ELSE 10000 - BSRow(sigma, K, T, r).cdf_d1

\* lines 188-189: d1 and norm.cdf(d1) or -norm.cdf(-d1); a division by a
\* zero np.float64 gives inf, -inf or nan and a warning, no exception
delta_from_volatility(sigma, S, K, T, r, option_type) ==
  IF D1DenominatorIsZero(sigma, T)
  THEN LET sgn == D1NumeratorSign(S, K, r) IN
       IF sgn = 0 THEN NaN
       ELSE IF option_type = "call" THEN (IF sgn > 0 THEN 10000 ELSE 0)
       ELSE (IF sgn > 0 THEN 0 ELSE -10000)
  ELSE IF option_type = "call" THEN BSRow(sigma, K, T, r).cdf_d1
  ELSE - (10000 - BSRow(sigma, K, T, r).cdf_d1)

\* lines 181-190: what the implied-volatility branch can yield
VolatilityBranch(option_price, S, K, T, r, option_type) ==
  {[implied_volatility |-> iv,
    d1_evaluated |-> iv # None,
    d1_denominator_zero |-> iv # None /\ D1DenominatorIsZero(iv[1], T),
    ivd |-> IF iv = None THEN None
            ELSE Some(delta_from_volatility(iv[1], S, K, T, r, option_type))] :
     iv \in calculate_implied_volatility(option_price, S, K, T, r, option_type)}

\* ------------------------------------------------------------ spread finder
_create_option_leg(option_symbol, strike_price, underlying_price, delta, option_price, timestamp, expiry) ==
  [option_symbol |-> option_symbol, strike_price |-> strike_price,
   underlying_price |-> underlying_price, delta |-> delta,
   option_price |-> option_price, timestamp |-> timestamp,
   expiration_date |-> expiry]

\* a variant that forgets the lower bound
InRangeUpperOnly(rng, x) == x <= rng[2]

\* a variant that excludes the two ends
InRangeExclusive(rng, x) == rng[1] < x /\ x < rng[2]

\* the chained comparison low <= x <= high
InRange(rng, x) == rng[1] <= x /\ x <= rng[2]

SpreadLegs(short_leg, long_leg, credit_received, entry_timestamp, spread_width) ==
  [short_leg |-> short_leg, long_leg |-> long_leg,
   credit_received |-> credit_received,
   entry_timestamp |-> entry_timestamp, spread_width |-> spread_width]

initial_total_delta(s) == Abs(s.short_leg.delta) - Abs(s.long_leg.delta)

\* a variant that returns the pair without testing the width
ValidateSpreadNoCheck(s, l, current_timestamp) ==
  LET spread_width == Abs(s.strike_price - l.strike_price) IN
  [short |-> Some(s), long |-> Some(l),
   ret |-> Some(SpreadLegs(s, l, s.option_price - l.option_price,
                           current_timestamp, spread_width))]

\* a variant that empties only the short slot on a width mismatch
ValidateSpreadKeepsLong(s, l, current_timestamp) ==
  LET spread_width == Abs(s.strike_price - l.strike_price) IN
  IF ~ InRange(cfg.spread_width_range, spread_width)
  THEN [short |-> None, long |-> Some(l), ret |-> None]
  ELSE [short |-> Some(s), long |-> Some(l),
        ret |-> Some(SpreadLegs(s, l, s.option_price - l.option_price,
                                current_timestamp, spread_width))]

\* a variant that empties only the long slot on a width mismatch
ValidateSpreadKeepsShort(s, l, current_timestamp) ==
  LET spread_width == Abs(s.strike_price - l.strike_price) IN
  IF ~ InRange(cfg.spread_width_range, spread_width)
  THEN [short |-> Some(s), long |-> None, ret |-> None]
  ELSE [short |-> Some(s), long |-> Some(l),
        ret |-> Some(SpreadLegs(s, l, s.option_price - l.option_price,
                                current_timestamp, spread_width))]

\* a variant that keeps searching when the pair in range earns no credit
ValidateSpreadHoldsPair(s, l, current_timestamp) ==
  LET spread_width == Abs(s.strike_price - l.strike_price) IN
  IF ~ InRange(cfg.spread_width_range, spread_width)
  THEN [short |-> None, long |-> None, ret |-> None]
  ELSE IF s.option_price - l.option_price <= 0
  THEN [short |-> Some(s), long |-> Some(l), ret |-> None]
  ELSE [short |-> Some(s), long |-> Some(l),
        ret |-> Some(SpreadLegs(s, l, s.option_price - l.option_price,
                                current_timestamp, spread_width))]

\* a variant that books the size of the price difference as the credit
ValidateSpreadAbsCredit(s, l, current_timestamp) ==
  LET spread_width == Abs(s.strike_price - l.strike_price) IN
  IF ~ InRange(cfg.spread_width_range, spread_width)
  THEN [short |-> None, long |-> None, ret |-> None]
  ELSE [short |-> Some(s), long |-> Some(l),
        ret |-> Some(SpreadLegs(s, l, Abs(s.option_price - l.option_price),
                                current_timestamp, spread_width))]

\* a variant that stamps the spread with the short leg's capture time
ValidateSpreadEntryAtShort(s, l, current_timestamp) ==
  LET spread_width == Abs(s.strike_price - l.strike_price) IN
  IF ~ InRange(cfg.spread_width_range, spread_width)
  THEN [short |-> None, long |-> None, ret |-> None]
  ELSE [short |-> Some(s), long |-> Some(l),
        ret |-> Some(SpreadLegs(s, l, s.option_price - l.option_price,
                                s.timestamp, spread_width))]

\* the width check and the return of find_spread, once both slots are set
ValidateSpread(s, l, current_timestamp) ==
  LET spread_width == Abs(s.strike_price - l.strike_price) IN
  IF ~ InRange(cfg.spread_width_range, spread_width)
  THEN [short |-> None, long |-> None, ret |-> None]
  ELSE [short |-> Some(s), long |-> Some(l),
        ret |-> Some(SpreadLegs(s, l, s.option_price - l.option_price,
                                current_timestamp, spread_width))]

\* a variant that empties the slots when a tick has to be skipped
ProcessTickResetOnSkip(short, long, tick) ==
  LET same == [short |-> None, long |-> None, ret |-> None] IN
  IF tick.underlying_close = None THEN same
  ELSE
    LET delta == calculate_delta(tick.ivd, tick.strike_price, tick.expiry,
                                 tick.underlying_close[1], "put", tick.timestamp)
    IN
    IF delta = None THEN same
    ELSE
      LET leg == _create_option_leg(tick.option_symbol, tick.strike_price,
                   tick.underlying_close[1], delta[1], tick.midpoint,
                   tick.timestamp, tick.expiry)
          toShort == short = None /\ InRange(cfg.short_put_delta_range, delta[1])
          toLong == ~ toShort /\ InRange(cfg.long_put_delta_range, delta[1])
          s1 == IF toShort THEN Some(leg) ELSE short
          l1 == IF toLong THEN Some(leg) ELSE long
      IN IF s1 # None /\ l1 # None
         THEN ValidateSpread(s1[1], l1[1], tick.timestamp)
         ELSE [short |-> s1, long |-> l1, ret |-> None]

\* a variant that tests the long band before the short band
ProcessTickLongFirst(short, long, tick) ==
  LET same == [short |-> short, long |-> long, ret |-> None] IN
  IF tick.underlying_close = None THEN same
  ELSE
    LET delta == calculate_delta(tick.ivd, tick.strike_price, tick.expiry,
                                 tick.underlying_close[1], "put", tick.timestamp)
    IN
    IF delta = None THEN same
    ELSE
      LET leg == _create_option_leg(tick.option_symbol, tick.strike_price,
                   tick.underlying_close[1], delta[1], tick.midpoint,
                   tick.timestamp, tick.expiry)
          toLong == InRange(cfg.long_put_delta_range, delta[1])
          toShort == ~ toLong /\ short = None
                       /\ InRange(cfg.short_put_delta_range, delta[1])
          s1 == IF toShort THEN Some(leg) ELSE short
          l1 == IF toLong THEN Some(leg) ELSE long
      IN IF s1 # None /\ l1 # None
         THEN ValidateSpread(s1[1], l1[1], tick.timestamp)
         ELSE [short |-> s1, long |-> l1, ret |-> None]

\* a variant that lets every tick in the short band take the short slot
ProcessTickShortOverwrite(short, long, tick) ==
  LET same == [short |-> short, long |-> long, ret |-> None] IN
  IF tick.underlying_close = None THEN same
  ELSE
    LET delta == calculate_delta(tick.ivd, tick.strike_price, tick.expiry,
                                 tick.underlying_close[1], "put", tick.timestamp)
    IN
    IF delta = None THEN same
    ELSE
      LET leg == _create_option_leg(tick.option_symbol, tick.strike_price,
                   tick.underlying_close[1], delta[1], tick.midpoint,
                   tick.timestamp, tick.expiry)
          toShort == InRange(cfg.short_put_delta_range, delta[1])
          toLong == ~ toShort /\ InRange(cfg.long_put_delta_range, delta[1])
          s1 == IF toShort THEN Some(leg) ELSE short
          l1 == IF toLong THEN Some(leg) ELSE long
      IN IF s1 # None /\ l1 # None
         THEN ValidateSpread(s1[1], l1[1], tick.timestamp)
         ELSE [short |-> s1, long |-> l1, ret |-> None]

\* the body of find_spread's inner loop for one tick: the new slots and the
\* returned spread, if any
ProcessTick(short, long, tick) ==
  LET same == [short |-> short, long |-> long, ret |-> None] IN
  IF tick.underlying_close = None THEN same
  ELSE
    LET delta == calculate_delta(tick.ivd, tick.strike_price, tick.expiry,
                                 tick.underlying_close[1], "put", tick.timestamp)
    IN
    IF delta = None THEN same
    ELSE
      LET leg == _create_option_leg(tick.option_symbol, tick.strike_price,
                   tick.underlying_close[1], delta[1], tick.midpoint,
                   tick.timestamp, tick.expiry)
          toShort == short = None /\ InRange(cfg.short_put_delta_range, delta[1])
          toLong == ~ toShort /\ InRange(cfg.long_put_delta_range, delta[1])
          s1 == IF toShort THEN Some(leg) ELSE short
          l1 == IF toLong THEN Some(leg) ELSE long
      IN IF s1 # None /\ l1 # None
         THEN ValidateSpread(s1[1], l1[1], tick.timestamp)
         ELSE [short |-> s1, long |-> l1, ret |-> None]


\* ------------------------------------------------------------ live metrics
\* the loop "for tick_data in current_data" of
\* calculate_current_spread_metrics, from tick i on; acc holds
\* current_short_price, current_long_price, current_underlying_price and the
\* implied-volatility outcome of the quote each price came from
RECURSIVE FindCurrentPrices(_, _, _, _)
FindCurrentPrices(s, current_data, i, acc) ==
  IF i > Len(current_data) THEN acc
  ELSE
    LET tick_data == current_data[i]
        acc1 ==
          IF tick_data.option_symbol = s.short_leg.option_symbol
          THEN [acc EXCEPT !.current_short_price = Some(tick_data.midpoint),
                           !.current_underlying_price = tick_data.underlying_close,
                           !.short_ivd = tick_data.ivd]
          ELSE IF tick_data.option_symbol = s.long_leg.option_symbol
          THEN [acc EXCEPT !.current_long_price = Some(tick_data.midpoint),
                           !.current_underlying_price =
                              IF acc.current_underlying_price = None
                              THEN tick_data.underlying_close
                              ELSE acc.current_underlying_price,
                           !.long_ivd = tick_data.ivd]
          ELSE acc
    IN FindCurrentPrices(s, current_data, i + 1, acc1)

NoPrices ==
  [current_short_price |-> None, current_long_price |-> None,
   current_underlying_price |-> None, short_ivd |-> None, long_ivd |-> None]

\* "if not all([current_short_price, current_long_price,
\*              current_underlying_price]): return None"
PricesMissing(p) ==
  ~ (Truthy(p.current_short_price) /\ Truthy(p.current_long_price)
     /\ Truthy(p.current_underlying_price))

\* SpreadSelector.calculate_current_spread_metrics: None or Some(metrics)
calculate_current_spread_metrics(s, current_data) ==
  LET p == FindCurrentPrices(s, current_data, 1, NoPrices) IN
  IF PricesMissing(p) THEN None
  ELSE
    LET current_timestamp == current_data[1].timestamp
        current_short_delta ==
          calculate_delta(p.short_ivd, s.short_leg.strike_price,
                          s.short_leg.expiration_date,
                          p.current_underlying_price[1], "put", current_timestamp)
        current_long_delta ==
          calculate_delta(p.long_ivd, s.long_leg.strike_price,
                          s.long_leg.expiration_date,
                          p.current_underlying_price[1], "put", current_timestamp)
    IN
    IF current_short_delta = None \/ current_long_delta = None THEN None
    ELSE Some(
      [current_spread_price |-> p.current_short_price[1] - p.current_long_price[1],
       current_short_price |-> p.current_short_price[1],
       current_long_price |-> p.current_long_price[1],
       current_underlying_price |-> p.current_underlying_price[1],
       current_short_delta |-> current_short_delta[1],
       current_long_delta |-> current_long_delta[1],
       current_total_delta |->
          Abs(current_short_delta[1]) - Abs(current_long_delta[1]),
       timestamp |-> current_timestamp])

\* ---------------------------------------------------------------- simulator
\* a variant whose target grows with the trades already recorded
TargetProfitPriceDrifting(s) ==
  s.credit_received * (cfg.target_profit_pct + 50 * Len(results))

\* target_profit_price = credit_received * target_profit_percentage, kept
\* as the integer credit * 50 (the price times 100)
\* a variant that takes the target from the width of the spread
TargetProfitPriceOfWidth(s) == s.spread_width * cfg.target_profit_pct

TargetProfitPrice100(s) == s.credit_received * cfg.target_profit_pct
\* a variant whose stop-loss threshold moves with the minute monitored
DeltaStopLoss10Trailing(s) ==
  initial_total_delta(s) * cfg.stop_loss_tenths + 10 * scan

\* delta_stop_loss = initial_total_delta * delta_stop_loss_multiplier, kept
\* as the integer initial * 25 (the threshold times 10)
DeltaStopLoss10(s) == initial_total_delta(s) * cfg.stop_loss_tenths

\* a variant that tests the delta stop-loss before the profit target
check_exit_stop_first(s, metrics, target_profit_price100, delta_stop_loss10) ==
  IF metrics.current_total_delta * 10 >= delta_stop_loss10
  THEN Some([status |-> "delta_stop_loss",
             theoretical_pnl |->
               (s.credit_received - metrics.current_spread_price) * ContractMultiplier])
  ELSE IF metrics.current_spread_price * 100 <= target_profit_price100
  THEN Some([status |-> "target_profit",
             theoretical_pnl |->
               (s.credit_received - metrics.current_spread_price) * ContractMultiplier])
  ELSE IF metrics.current_underlying_price <= s.short_leg.strike_price
  THEN Some([status |-> "assignment_risk",
             theoretical_pnl |->
               (s.credit_received -
                  (s.short_leg.strike_price - metrics.current_underlying_price))
               * ContractMultiplier])
  ELSE None

\* a variant whose assignment test leaves out underlying = strike
check_exit_assignment_strict(s, metrics, target_profit_price100, delta_stop_loss10) ==
  IF metrics.current_spread_price * 100 <= target_profit_price100
  THEN Some([status |-> "target_profit",
             theoretical_pnl |->
               (s.credit_received - metrics.current_spread_price) * ContractMultiplier])
  ELSE IF metrics.current_total_delta * 10 >= delta_stop_loss10
  THEN Some([status |-> "delta_stop_loss",
             theoretical_pnl |->
               (s.credit_received - metrics.current_spread_price) * ContractMultiplier])
  ELSE IF metrics.current_underlying_price < s.short_leg.strike_price
  THEN Some([status |-> "assignment_risk",
             theoretical_pnl |->
               (s.credit_received -
                  (s.short_leg.strike_price - metrics.current_underlying_price))
               * ContractMultiplier])
  ELSE None

\* a variant whose profit-target payoff subtracts the wrong way round
check_exit_pnl_reversed(s, metrics, target_profit_price100, delta_stop_loss10) ==
  IF metrics.current_spread_price * 100 <= target_profit_price100
  THEN Some([status |-> "target_profit",
             theoretical_pnl |->
               (metrics.current_spread_price - s.credit_received) * ContractMultiplier])
  ELSE IF metrics.current_total_delta * 10 >= delta_stop_loss10
  THEN Some([status |-> "delta_stop_loss",
             theoretical_pnl |->
               (s.credit_received - metrics.current_spread_price) * ContractMultiplier])
  ELSE IF metrics.current_underlying_price <= s.short_leg.strike_price
  THEN Some([status |-> "assignment_risk",
             theoretical_pnl |->
               (s.credit_received -
                  (s.short_leg.strike_price - metrics.current_underlying_price))
               * ContractMultiplier])
  ELSE None

\* ZeroDTEBacktester._check_exit_conditions: None or Some(exit_result)
_check_exit_conditions(s, metrics, target_profit_price100, delta_stop_loss10) ==
  IF metrics.current_spread_price * 100 <= target_profit_price100
  THEN Some([status |-> "target_profit",
             theoretical_pnl |->
               (s.credit_received - metrics.current_spread_price) * ContractMultiplier])
  ELSE IF metrics.current_total_delta * 10 >= delta_stop_loss10
  THEN Some([status |-> "delta_stop_loss",
             theoretical_pnl |->
               (s.credit_received - metrics.current_spread_price) * ContractMultiplier])
  ELSE IF metrics.current_underlying_price <= s.short_leg.strike_price
  THEN Some([status |-> "assignment_risk",
             theoretical_pnl |->
               (s.credit_received -
                  (s.short_leg.strike_price - metrics.current_underlying_price))
               * ContractMultiplier])
  ELSE None

\* exit_result.update({...}) and result['iteration'] = iteration
TradeOutcome(exit_result, s, exit_time, it) ==
  [status |-> exit_result.status,
   theoretical_pnl |-> exit_result.theoretical_pnl,
   short_put_symbol |-> s.short_leg.option_symbol,
   long_put_symbol |-> s.long_leg.option_symbol,
   entry_time |-> s.entry_timestamp,
   exit_time |-> exit_time,
   credit_received |-> s.credit_received,
   spread_width |-> s.spread_width,
   iteration |-> it]

\* the outcome of one monitored timestamp: None (skipped or no exit) or
\* Some(exit_result)
MonitorStep(s, current_data) ==
  LET metrics == calculate_current_spread_metrics(s, current_data) IN
  IF metrics = None THEN None
  ELSE _check_exit_conditions(s, metrics[1], TargetProfitPrice100(s),
                              DeltaStopLoss10(s))

\* ------------------------------------------------------------- orchestrator
\* a variant that hands the whole stream to every iteration
FilteredKeysUnfiltered == keys

\* filtered_data.keys(): timestamp >= current_start_time
FilteredKeys == {t \in keys : t >= current_start_time}

\* the key the finder's outer loop visits after scan
FindNextKeys == {t \in FilteredKeys : t > scan}
\* a variant that lets the monitor loop evaluate the entry minute too
MonitorNextKeysFromEntry ==
  {t \in FilteredKeys : t > scan /\ ~ (t < spread[1].entry_timestamp)}

\* the key the monitor loop evaluates after scan: keys up to and including
\* entry_timestamp are skipped by "continue"
MonitorNextKeys ==
  {t \in FilteredKeys : t > scan /\ ~ (t <= spread[1].entry_timestamp)}

\* the minutes that carry option ticks: a session of any length, possibly
\* with one minute missing
KeySets ==
  {1..n : n \in 0..MaxT} \cup {Timestamps \ {k} : k \in Timestamps}

Configs ==
  [short_put_delta_range : ShortBands, long_put_delta_range : LongBands,
   spread_width_range : WidthRanges, max_iterations : -1..MaxIterations,
   target_profit_pct : {TargetProfitPct}, stop_loss_tenths : {StopLossTenths}]

\* the variables a specification does not use keep these values
AuxInit ==
  /\ last_tick = None
  /\ fresh = {}
  /\ first_short = None
  /\ last_long = None
  /\ tape = <<>>
  /\ outcomes = <<>>
  /\ px = <<>>
  /\ watched = <<>>
  /\ found = 0

Init ==
  /\ cfg \in Configs
  /\ keys \in KeySets
  /\ market_close_utc \in Expiries
  /\ pc = "start"
  /\ current_start_time = 0
  /\ iteration = 0
  /\ results = <<>>
  /\ reason = "running"
  /\ scan = 0
  /\ group_und = None
  /\ seen = {}
  /\ short_put = None
  /\ long_put = None
  /\ spread = None
  /\ eval_data = <<>>
  /\ eval_metrics = None
  /\ eval_exit = None
  /\ AuxInit

\* run(): the part before the while loop
RunStart ==
  /\ pc = "start"
  /\ IF keys = {}
     THEN /\ pc' = "done"
          /\ reason' = "no_data"
          /\ UNCHANGED <<current_start_time, iteration>>
     ELSE /\ pc' = "loop"
          /\ current_start_time' = SetMin(keys)
          /\ iteration' = 1
          /\ UNCHANGED reason
  /\ results' = <<>>
  /\ UNCHANGED <<auxvars, evalvars, cfg, keys, market_close_utc, scan, group_und, seen, short_put, long_put, spread>>

\* the while condition, the filter and the "no more data" break; then
\* _execute_single_trade is entered and find_spread starts with empty slots
LoopHead ==
  /\ pc = "loop"
  /\ IF ~ (iteration <= cfg.max_iterations)
     THEN pc' = "done" /\ reason' = "cap"
     ELSE IF FilteredKeys = {}
     THEN pc' = "done" /\ reason' = "no_more_data"
     ELSE pc' = "find" /\ UNCHANGED reason
  /\ scan' = 0
  /\ group_und' = None
  /\ seen' = {}
  /\ short_put' = None
  /\ long_put' = None
  /\ UNCHANGED <<auxvars, evalvars, cfg, keys, market_close_utc, current_start_time, iteration, results, spread>>

\* find_spread processes one tick: either it returns a spread (and the
\* monitor loop of _execute_single_trade starts) or it goes on scanning
FindTickCore(tick, und) ==
  LET r == ProcessTick(short_put, long_put, tick) IN
  /\ scan' = IF r.ret = None THEN tick.timestamp ELSE 0
  /\ group_und' = IF r.ret = None THEN und ELSE None
  /\ seen' = IF r.ret = None
             THEN (IF tick.timestamp = scan THEN seen ELSE {}) \cup {tick.option_symbol}
             ELSE {}
  /\ short_put' = IF r.ret = None THEN r.short ELSE None
  /\ long_put' = IF r.ret = None THEN r.long ELSE None
  /\ spread' = r.ret
  /\ pc' = IF r.ret = None THEN "find" ELSE "monitor"
  /\ found' = IF r.ret = None THEN found ELSE found + 1
  /\ UNCHANGED <<tape, outcomes, px, watched, evalvars, cfg, keys,
                 market_close_utc, current_start_time, iteration, results,
                 reason>>

FindTick(tick, und) == FindTickCore(tick, und) /\ UNCHANGED findervars

\* the next tick of the timestamp group being scanned
FindNextTick ==
  /\ pc = "find"
  /\ scan \in FilteredKeys
  /\ \E symbol \in Symbols \ seen, mid \in Mids, ivd \in IvDeltas :
       FindTick(MakeTick(symbol, scan, mid, group_und, ivd, market_close_utc), group_und)

\* the first tick of the next timestamp group
FindNextTimestamp ==
  /\ pc = "find"
  /\ FindNextKeys # {}
  /\ \E symbol \in Symbols, mid \in Mids, ivd \in IvDeltas, und \in Underlyings :
       FindTick(MakeTick(symbol, SetMin(FindNextKeys), mid, und, ivd, market_close_utc), und)

\* a variant that drops the accumulated outcomes when no spread is found
FindExhaustedDropsResults ==
  /\ pc = "find"
  /\ FindNextKeys = {}
  /\ pc' = "done"
  /\ reason' = "no_spread"
  /\ results' = <<>>
  /\ scan' = 0
  /\ group_und' = None
  /\ seen' = {}
  /\ short_put' = None
  /\ long_put' = None
  /\ UNCHANGED <<auxvars, evalvars, cfg, keys, market_close_utc, current_start_time,
                 iteration, spread>>

\* find_spread runs out of ticks and returns None; _execute_single_trade
\* returns None and run() breaks
FindExhausted ==
  /\ pc = "find"
  /\ FindNextKeys = {}
  /\ pc' = "done"
  /\ reason' = "no_spread"
  /\ scan' = 0
  /\ group_und' = None
  /\ seen' = {}
  /\ short_put' = None
  /\ long_put' = None
  /\ UNCHANGED <<auxvars, evalvars, cfg, keys, market_close_utc, current_start_time, iteration, results, spread>>

\* a variant that restarts at the exit minute itself
NextStartTimeAtExit(result) == result.exit_time

\* a variant that restarts at the entry minute
NextStartTimeAtEntry(result) == result.entry_time

\* current_start_time = result['exit_time'] + pd.Timedelta(minutes=1)
NextStartTime(result) == result.exit_time + OneMinute

\* a variant that does not advance the iteration counter
StoreResultNoCount(result) ==
  /\ results' = Append(results, result)
  /\ current_start_time' = NextStartTime(result)
  /\ iteration' = iteration
  /\ pc' = "loop"
  /\ spread' = None
  /\ scan' = 0
  /\ UNCHANGED <<auxvars, evalvars, cfg, keys, market_close_utc, reason, group_und, seen, short_put, long_put>>

\* run() stores the result and moves the cursor
StoreResult(result) ==
  /\ results' = Append(results, result)
  /\ current_start_time' = NextStartTime(result)
  /\ iteration' = iteration + 1
  /\ pc' = "loop"
  /\ spread' = None
  /\ scan' = 0
  /\ UNCHANGED <<auxvars, evalvars, cfg, keys, market_close_utc, reason, group_und, seen, short_put, long_put>>

\* the body of the monitor loop for the group current_data of a timestamp
MonitorGroup(timestamp, current_data) ==
  LET exit_result == MonitorStep(spread[1], current_data) IN
  IF exit_result = None
  THEN /\ scan' = timestamp
       /\ UNCHANGED <<auxvars, evalvars, cfg, keys, market_close_utc, pc,
                      current_start_time, iteration, results, reason,
                      group_und, seen, short_put, long_put, spread>>
  ELSE StoreResult(TradeOutcome(exit_result[1], spread[1], timestamp,
                                iteration))

\* the monitor loop of _execute_single_trade visits the next timestamp
\* after entry
MonitorTimestamp ==
  /\ pc = "monitor"
  /\ MonitorNextKeys # {}
  /\ \E current_data \in Groups(SetMin(MonitorNextKeys), market_close_utc) :
       MonitorGroup(SetMin(MonitorNextKeys), current_data)

\* a variant that closes the expired trade at its entry minute
ExpiredOutcomeAtEntry(s, filtered_keys, it) ==
  TradeOutcome(
    [status |-> "expired",
     theoretical_pnl |-> s.credit_received * ContractMultiplier],
    s, s.entry_timestamp, it)

\* a variant that closes the expired trade at the first minute of the
\* sub-stream
ExpiredOutcomeAtFirstKey(s, filtered_keys, it) ==
  TradeOutcome(
    [status |-> "expired",
     theoretical_pnl |-> s.credit_received * ContractMultiplier],
    s, SetMin(filtered_keys), it)

\* "Handle expiration": final_timestamp = max(filtered_data.keys())
ExpiredOutcome(s, filtered_keys, it) ==
  TradeOutcome(
    [status |-> "expired",
     theoretical_pnl |-> s.credit_received * ContractMultiplier],
    s, SetMax(filtered_keys), it)

\* a variant in which a trade nothing closed returns no outcome
ExpireWithoutOutcome ==
  /\ pc = "monitor"
  /\ MonitorNextKeys = {}
  /\ pc' = "done"
  /\ reason' = "no_spread"
  /\ spread' = None
  /\ scan' = 0
  /\ UNCHANGED <<auxvars, evalvars, cfg, keys, market_close_utc, current_start_time,
                 iteration, results, group_und, seen, short_put, long_put>>

\* the monitor loop ends without an exit: the trade expires
Expire ==
  /\ pc = "monitor"
  /\ MonitorNextKeys = {}
  /\ StoreResult(ExpiredOutcome(spread[1], FilteredKeys, iteration))

Next ==
  \/ RunStart
  \/ LoopHead
  \/ FindNextTick
  \/ FindNextTimestamp
  \/ FindExhausted
  \/ MonitorTimestamp
  \/ Expire

Spec == Init /\ [][Next]_vars

\* run() is one synchronous call: every step that can be taken is taken
FairSpec == Spec /\ WF_vars(Next)

\* ------------------------------------------------------------- PricingSpec
\* One call of OptionUtils.calculate_delta or of
\* OptionUtils.calculate_implied_volatility on arguments drawn from the
\* tabulated quotes: the strike, the time to expiry (before, at and after
\* the floor), the rate, the option kind and a price at, just above and far
\* above the intrinsic value or on the pricing curve.
PricingStrikes == {56700, 56800, 57000}
PricingRates == {0, 1}
TableTimes == {60000, 7200000}
PricingTimes == {-60000, 0, TimeFloor} \cup TableTimes
PriceInputs(K, T, r, option_type) ==
  LET I == intrinsic_value(PricingUnderlying, K, option_type) IN
  {0, I, I + PriceEpsilon, I + 2} \cup
  (IF T \in TableTimes
   THEN {BSPrice(x, K, T, r, option_type) : x \in SigmaGrid}
          \cup {BSPrice(sigma_upper, K, T, r, option_type) + 1000000}
   ELSE {650000})
PricingInputs ==
  UNION {
    {[option_price |-> p, strike_price |-> K, ms |-> ms, r |-> r,
      option_type |-> ty, call |-> "none"] :
        p \in PriceInputs(K, TimeToExpiry(ms), r, ty)}
    : K \in PricingStrikes, ms \in PricingTimes, r \in PricingRates,
      ty \in {"put", "call"}}

PricingInit ==
  /\ px \in PricingInputs
  /\ pc = "price_call"
  /\ cfg \in {c \in Configs : /\ c.max_iterations = 0
                              /\ c.short_put_delta_range = DefaultShortBand
                              /\ c.spread_width_range = DefaultWidthRange}
  /\ keys = {}
  /\ market_close_utc = MaxT
  /\ current_start_time = 0
  /\ iteration = 0
  /\ results = <<>>
  /\ reason = "running"
  /\ scan = 0
  /\ group_und = None
  /\ seen = {}
  /\ short_put = None
  /\ long_put = None
  /\ spread = None
  /\ eval_data = <<>>
  /\ eval_metrics = None
  /\ eval_exit = None
  /\ last_tick = None
  /\ fresh = {}
  /\ first_short = None
  /\ last_long = None
  /\ tape = <<>>
  /\ outcomes = <<>>
  /\ watched = <<>>
  /\ found = 0

\* the floor branch returns before the implied-volatility branch is entered
NoVolatility ==
  [implied_volatility |-> None, d1_evaluated |-> FALSE,
   d1_denominator_zero |-> FALSE, ivd |-> None]

PricingFrame ==
  UNCHANGED <<findervars, tape, outcomes, watched, found, evalvars, cfg, keys,
              market_close_utc, current_start_time, iteration, results,
              reason, scan, group_und, seen, short_put, long_put, spread>>

\* OptionUtils.calculate_delta(option_price, strike_price, expiry_timestamp,
\* underlying_price, risk_free_rate, option_type, current_timestamp)
DeltaCall ==
  /\ pc = "price_call"
  /\ LET T == TimeToExpiry(px.ms) IN
     \E vb \in (IF T = TimeFloor THEN {NoVolatility}
                ELSE VolatilityBranch(px.option_price, PricingUnderlying,
                                      px.strike_price, T, px.r,
                                      px.option_type)) :
       px' = [option_price |-> px.option_price,
              strike_price |-> px.strike_price, ms |-> px.ms, r |-> px.r,
              option_type |-> px.option_type,
              call |-> "calculate_delta",
              T |-> T,
              inverted |-> T # TimeFloor,
              implied_volatility |-> vb.implied_volatility,
              d1_evaluated |-> vb.d1_evaluated,
              d1_denominator_zero |-> vb.d1_denominator_zero,
              delta |-> delta_at(vb.ivd, px.strike_price, T,
                                 PricingUnderlying, px.option_type, 10000)]
  /\ pc' = "price_done"
  /\ PricingFrame

\* OptionUtils.calculate_implied_volatility(option_price, S, K, T, r,
\* option_type), with a T above the floor as calculate_delta passes it
ImpliedVolatilityCall ==
  /\ pc = "price_call"
  /\ px.ms \in TableTimes
  /\ \E iv \in calculate_implied_volatility(px.option_price, PricingUnderlying,
                                            px.strike_price, px.ms, px.r,
                                            px.option_type) :
       px' = [option_price |-> px.option_price,
              strike_price |-> px.strike_price, ms |-> px.ms, r |-> px.r,
              option_type |-> px.option_type,
              call |-> "calculate_implied_volatility",
              T |-> px.ms,
              inverted |-> TRUE,
              implied_volatility |-> iv,
              d1_evaluated |-> FALSE,
              d1_denominator_zero |-> FALSE,
              delta |-> None]
  /\ pc' = "price_done"
  /\ PricingFrame

PricingNext == DeltaCall \/ ImpliedVolatilityCall

PricingSpec == PricingInit /\ [][PricingNext]_vars

\* -------------------------------------------------------------- FinderSpec
\* One call of find_spread on a sub-stream, from its first tick to its
\* return, with a record of what it has examined.  The record is written
\* from the rule of the scan, not from the slots: whether a tick is examined
\* at all, which bands its delta is in, which slot the rule gives it to and
\* whether the pair that results fails the width test.
TickDelta(tick) ==
  IF tick.underlying_close = None THEN None
  ELSE calculate_delta(tick.ivd, tick.strike_price, tick.expiry,
                       tick.underlying_close[1], "put", tick.timestamp)
Examined(tick) == TickDelta(tick) # None
TickLeg(tick) ==
  _create_option_leg(tick.option_symbol, tick.strike_price,
                     tick.underlying_close[1], TickDelta(tick)[1],
                     tick.midpoint, tick.timestamp, tick.expiry)
InShortBand(tick) ==
  /\ Examined(tick)
  /\ cfg.short_put_delta_range[1] <= TickDelta(tick)[1]
  /\ TickDelta(tick)[1] <= cfg.short_put_delta_range[2]
InLongBand(tick) ==
  /\ Examined(tick)
  /\ cfg.long_put_delta_range[1] <= TickDelta(tick)[1]
  /\ TickDelta(tick)[1] <= cfg.long_put_delta_range[2]
GivenToShort(tick, short) == short = None /\ InShortBand(tick)
GivenToLong(tick, short) == InLongBand(tick) /\ ~ GivenToShort(tick, short)
GivenTo(tick, short) ==
  IF GivenToShort(tick, short) THEN "short"
  ELSE IF GivenToLong(tick, short) THEN "long" ELSE "none"
\* the pair held once the tick has been given to its slot, if it is a pair
PairAfter(tick, short, long) ==
  [short |-> IF GivenToShort(tick, short) THEN Some(TickLeg(tick)) ELSE short,
   long |-> IF GivenToLong(tick, short) THEN Some(TickLeg(tick)) ELSE long]
WidthMismatch(tick, short, long) ==
  LET p == PairAfter(tick, short, long) IN
  /\ p.short # None
  /\ p.long # None
  /\ LET w == Abs(p.short[1].strike_price - p.long[1].strike_price) IN
       w < cfg.spread_width_range[1] \/ w > cfg.spread_width_range[2]

\* find_spread examines one tick; the record is brought up to date
ScanTick(tick, und) ==
  /\ FindTickCore(tick, und)
  /\ last_tick' = Some(tick)
  /\ IF WidthMismatch(tick, short_put, long_put)
     THEN fresh' = {} /\ first_short' = None /\ last_long' = None
     ELSE /\ fresh' = fresh \cup {<<tick.option_symbol, tick.timestamp,
                                    GivenTo(tick, short_put)>>}
          /\ first_short' = IF first_short = None /\ InShortBand(tick)
                            THEN Some(TickLeg(tick)) ELSE first_short
          /\ last_long' = IF GivenToLong(tick, short_put)
                          THEN Some(TickLeg(tick)) ELSE last_long

ScanNextTick ==
  /\ pc = "find"
  /\ scan \in FilteredKeys
  /\ \E symbol \in Symbols \ seen, mid \in Mids, ivd \in IvDeltas :
       ScanTick(MakeTick(symbol, scan, mid, group_und, ivd, market_close_utc), group_und)

ScanNextTimestamp ==
  /\ pc = "find"
  /\ FindNextKeys # {}
  /\ \E symbol \in Symbols, mid \in Mids, ivd \in IvDeltas, und \in Underlyings :
       ScanTick(MakeTick(symbol, SetMin(FindNextKeys), mid, und, ivd, market_close_utc), und)

\* find_spread is entered with a non-empty sub-stream and empty slots
FinderInit ==
  /\ cfg \in {c \in Configs : c.max_iterations = 1}
  /\ keys \in KeySets \ {{}}
  /\ market_close_utc \in Expiries
  /\ pc = "find"
  /\ current_start_time = SetMin(keys)
  /\ iteration = 1
  /\ results = <<>>
  /\ reason = "running"
  /\ scan = 0
  /\ group_und = None
  /\ seen = {}
  /\ short_put = None
  /\ long_put = None
  /\ spread = None
  /\ eval_data = <<>>
  /\ eval_metrics = None
  /\ eval_exit = None
  /\ AuxInit

FinderNext == ScanNextTick \/ ScanNextTimestamp \/ FindExhausted

FinderSpec == FinderInit /\ [][FinderNext]_vars

\* ------------------------------------------------------------ SessionsSpec
\* One call of find_spread on a stream that holds two expiration days, as
\* get_comprehensive_historical_data builds it: the ticks of every
\* expiration are merged into one dictionary sorted by timestamp.  The 0DTE
\* symbols of a day are quoted on that day only, so a timestamp belongs to
\* one expiration; the second day's minutes lie MinutesPerDay later.
MinutesPerDay == 1440
ExpirationDay(ts) == IF ts > MinutesPerDay THEN 2 ELSE 1
\* generate_put_option_symbols: underlying + YYMMDD + P + strike field
DaySymbols(ts) == {ExpirationDay(ts) * StrikeField + k : k \in Symbols}
\* market_close_utc of the tick's expiration date
DayClose(ts) == market_close_utc + (ExpirationDay(ts) - 1) * MinutesPerDay
\* the last minutes of the first day followed by the first of the second
SessionKeySets ==
  {a \cup {1 + MinutesPerDay} : a \in {{MaxT}, {MaxT - 1, MaxT}}}

SessionsInit ==
  /\ cfg \in {c \in Configs : c.max_iterations = 1}
  /\ keys \in SessionKeySets
  /\ market_close_utc \in Expiries
  /\ pc = "find"
  /\ current_start_time = SetMin(keys)
  /\ iteration = 1
  /\ results = <<>>
  /\ reason = "running"
  /\ scan = 0
  /\ group_und = None
  /\ seen = {}
  /\ short_put = None
  /\ long_put = None
  /\ spread = None
  /\ eval_data = <<>>
  /\ eval_metrics = None
  /\ eval_exit = None
  /\ AuxInit

SessionScanNextTick ==
  /\ pc = "find"
  /\ scan \in FilteredKeys
  /\ \E symbol \in DaySymbols(scan) \ seen, mid \in Mids, ivd \in IvDeltas :
       ScanTick(MakeTick(symbol, scan, mid, group_und, ivd, DayClose(scan)),
                group_und)

SessionScanNextTimestamp ==
  /\ pc = "find"
  /\ FindNextKeys # {}
  /\ \E symbol \in DaySymbols(SetMin(FindNextKeys)), mid \in Mids,
        ivd \in IvDeltas, und \in Underlyings :
       ScanTick(MakeTick(symbol, SetMin(FindNextKeys), mid, und, ivd,
                         DayClose(SetMin(FindNextKeys))), und)

SessionsNext == SessionScanNextTick \/ SessionScanNextTimestamp \/ FindExhausted

SessionsSpec == SessionsInit /\ [][SessionsNext]_vars

\* ----------------------------------------------------------------- DetSpec
\* _execute_single_trade called twice on one tick sub-stream: the sub-stream
\* is fixed beforehand (tape), the first call runs from a fresh backtester,
\* the second from whatever the first one left behind (self.results, the
\* iteration's spread, the scan position).
DetGroupDone ==
  IF scan = 0 THEN TRUE ELSE Cardinality(seen) = Len(tape[scan])

DetFindNextTick ==
  /\ pc = "find"
  /\ scan \in FilteredKeys
  /\ ~ DetGroupDone
  /\ FindTick(tape[scan][Cardinality(seen) + 1], group_und)

DetFindNextTimestamp ==
  /\ pc = "find"
  /\ DetGroupDone
  /\ FindNextKeys # {}
  /\ LET tick == tape[SetMin(FindNextKeys)][1]
     IN FindTick(tick, tick.underlying_close)

DetFindExhausted == DetGroupDone /\ FindExhausted

DetMonitorTimestamp ==
  /\ pc = "monitor"
  /\ MonitorNextKeys # {}
  /\ MonitorGroup(SetMin(MonitorNextKeys), tape[SetMin(MonitorNextKeys)])

\* the first call has returned (a trade, after which run() stops at its
\* cap of one iteration, or nothing): its result is kept and the same
\* sub-stream is handed to a second call
DetStart ==
  /\ pc = "done"
  /\ Len(outcomes) = 0
  /\ outcomes' = <<IF Len(results) = 0 THEN None
                   ELSE Some(results[Len(results)])>>
  /\ pc' = "loop"
  /\ current_start_time' = SetMin(keys)
  /\ iteration' = 1
  /\ reason' = "running"
  /\ UNCHANGED <<findervars, tape, px, watched, found, evalvars, cfg, keys,
                 market_close_utc, results, scan, group_und, seen, short_put, long_put, spread>>

DetInit ==
  /\ cfg \in {c \in Configs : c.max_iterations = 1}
  /\ keys = {MaxT - 1, MaxT}
  /\ market_close_utc \in Expiries
  /\ \E g1 \in Groups(MaxT - 1, market_close_utc),
        g2 \in Groups(MaxT, market_close_utc) :
       tape = (MaxT - 1 :> g1) @@ (MaxT :> g2)
  /\ pc = "loop"
  /\ current_start_time = MaxT - 1
  /\ iteration = 1
  /\ results = <<>>
  /\ reason = "running"
  /\ scan = 0
  /\ group_und = None
  /\ seen = {}
  /\ short_put = None
  /\ long_put = None
  /\ spread = None
  /\ eval_data = <<>>
  /\ eval_metrics = None
  /\ eval_exit = None
  /\ last_tick = None
  /\ fresh = {}
  /\ first_short = None
  /\ last_long = None
  /\ outcomes = <<>>
  /\ px = <<>>
  /\ watched = <<>>
  /\ found = 0

DetNext ==
  \/ LoopHead
  \/ DetFindNextTick
  \/ DetFindNextTimestamp
  \/ DetFindExhausted
  \/ DetMonitorTimestamp
  \/ Expire
  \/ DetStart

DetSpec == DetInit /\ [][DetNext]_vars

\* ---------------------------------------------------------------- EvalSpec
\* The simulator's per-timestamp functions applied to every input: a spread
\* that find_spread returns for an entry group at minute MaxT - 1, and a
\* later tick group at minute MaxT in which every tick carries its own
\* optional underlying_close (the input contract of
\* calculate_current_spread_metrics puts no constraint on current_data).
EvalGroups(ts, exp) ==
  UNION {
    {[i \in DOMAIN o |-> MakeTick(o[i], ts, m[i], u[i], d[i], exp)] :
         m \in [DOMAIN o -> EvalMids], d \in [DOMAIN o -> IvDeltas],
         u \in [DOMAIN o -> EvalUnderlyings]}
    : o \in Orders(Symbols)}

EvalInit ==
  /\ cfg \in {c \in Configs : c.max_iterations = 1}
  /\ keys = {MaxT - 1, MaxT}
  /\ market_close_utc \in Expiries
  /\ pc = "eval_entry"
  /\ current_start_time = MaxT - 1
  /\ iteration = 1
  /\ results = <<>>
  /\ reason = "running"
  /\ scan = 0
  /\ group_und = None
  /\ seen = {}
  /\ short_put = None
  /\ long_put = None
  /\ spread = None
  /\ eval_data = <<>>
  /\ eval_metrics = None
  /\ eval_exit = None
  /\ AuxInit

\* find_spread over an entry group of two ticks returns a spread
EvalEnter ==
  /\ pc = "eval_entry"
  /\ \E o \in Orders(Symbols), m \in [1..2 -> EvalMids], d \in [1..2 -> IvDeltas],
        und \in Underlyings :
       /\ Len(o) = 2
       /\ LET t1 == MakeTick(o[1], MaxT - 1, m[1], und, d[1], market_close_utc)
              t2 == MakeTick(o[2], MaxT - 1, m[2], und, d[2], market_close_utc)
              r1 == ProcessTick(None, None, t1)
              r2 == ProcessTick(r1.short, r1.long, t2)
          IN /\ r1.ret = None
             /\ r2.ret # None
             /\ spread' = r2.ret
  /\ pc' = "eval_hold"
  /\ UNCHANGED <<auxvars, evalvars, cfg, keys, market_close_utc, current_start_time,
                 iteration, results, reason, scan, group_und, seen,
                 short_put, long_put>>

\* one pass of the monitor loop's body on a tick group of minute MaxT
EvalMonitor ==
  /\ pc = "eval_hold"
  /\ \E g \in EvalGroups(MaxT, market_close_utc) :
       LET m == calculate_current_spread_metrics(spread[1], g) IN
       /\ eval_data' = g
       /\ eval_metrics' = m
       /\ eval_exit' =
            IF m = None THEN None
            ELSE _check_exit_conditions(spread[1], m[1],
                   TargetProfitPrice100(spread[1]), DeltaStopLoss10(spread[1]))
  /\ pc' = "eval_done"
  /\ UNCHANGED <<auxvars, cfg, keys, market_close_utc, current_start_time,
                 iteration, results, reason, scan, group_und, seen, short_put,
                 long_put, spread>>

EvalNext == EvalEnter \/ EvalMonitor

EvalSpec == EvalInit /\ [][EvalNext]_vars

\* -------------------------------------------------------------- PayoffSpec
\* The same two steps for backtesters constructed with other values of
\* target_profit_percentage, which __init__ stores unvalidated: 0, 0.5, 1
\* and, outside [0, 1], 1.5.
TargetFractions == {0, TargetProfitPct, 100, 150}

PayoffInit ==
  /\ cfg \in {[c EXCEPT !.target_profit_pct = f] :
                c \in {k \in Configs : /\ k.max_iterations = 1
                                        /\ k.short_put_delta_range = DefaultShortBand
                                        /\ k.spread_width_range = DefaultWidthRange},
                f \in TargetFractions}
  /\ keys = {MaxT - 1, MaxT}
  /\ market_close_utc \in Expiries
  /\ pc = "eval_entry"
  /\ current_start_time = MaxT - 1
  /\ iteration = 1
  /\ results = <<>>
  /\ reason = "running"
  /\ scan = 0
  /\ group_und = None
  /\ seen = {}
  /\ short_put = None
  /\ long_put = None
  /\ spread = None
  /\ eval_data = <<>>
  /\ eval_metrics = None
  /\ eval_exit = None
  /\ AuxInit

PayoffSpec == PayoffInit /\ [][EvalNext]_vars

\* --------------------------------------------------------------- TradeSpec
\* One call of _execute_single_trade from the moment find_spread returns:
\* the spread comes from the two ticks of one minute of the sub-stream (the
\* ticks of the minutes before it having been skipped), and the monitor
\* loop then visits the timestamps one by one, with a record of each visit:
\* whether metrics were available and whether an exit condition held there.
\* The three exit conditions as the comparisons of lines 206, 213 and 220,
\* on thresholds taken from the spread
ExitFires(s, metrics) ==
  \/ metrics.current_spread_price * 100 <= s.credit_received * cfg.target_profit_pct
  \/ (Abs(metrics.current_short_delta) - Abs(metrics.current_long_delta)) * 10
       >= (Abs(s.short_leg.delta) - Abs(s.long_leg.delta)) * cfg.stop_loss_tenths
  \/ metrics.current_underlying_price <= s.short_leg.strike_price

Visit(s, timestamp, current_data) ==
  LET metrics == calculate_current_spread_metrics(s, current_data) IN
  [timestamp |-> timestamp,
   available |-> metrics # None,
   fires |-> IF metrics = None THEN FALSE ELSE ExitFires(s, metrics[1])]

TradeInit ==
  /\ cfg \in {c \in Configs : /\ c.max_iterations = 1
                              /\ c.short_put_delta_range = DefaultShortBand
                              /\ c.spread_width_range = DefaultWidthRange}
  /\ keys \in {K \in KeySets : Cardinality(K) >= 2}
  /\ market_close_utc \in Expiries
  /\ pc = "trade_entry"
  /\ current_start_time = SetMin(keys)
  /\ iteration = 1
  /\ results = <<>>
  /\ reason = "running"
  /\ scan = 0
  /\ group_und = None
  /\ seen = {}
  /\ short_put = None
  /\ long_put = None
  /\ spread = None
  /\ eval_data = <<>>
  /\ eval_metrics = None
  /\ eval_exit = None
  /\ AuxInit

\* find_spread returns a spread from the two ticks of a minute
TradeEnter ==
  /\ pc = "trade_entry"
  /\ \E entry \in FilteredKeys, o \in Orders(Symbols), m \in [1..2 -> Mids],
        d \in [1..2 -> IvDeltas], und \in Underlyings :
       /\ Len(o) = 2
       /\ LET t1 == MakeTick(o[1], entry, m[1], und, d[1], market_close_utc)
              t2 == MakeTick(o[2], entry, m[2], und, d[2], market_close_utc)
              r1 == ProcessTick(None, None, t1)
              r2 == ProcessTick(r1.short, r1.long, t2)
          IN /\ r1.ret = None
             /\ r2.ret # None
             /\ spread' = r2.ret
  /\ pc' = "monitor"
  /\ UNCHANGED <<auxvars, evalvars, cfg, keys, market_close_utc, current_start_time,
                 iteration, results, reason, scan, group_und, seen,
                 short_put, long_put>>

\* one pass of the monitor loop: the next timestamp after entry, its
\* metrics, the exit test and, on an exit, the return of the outcome
TradeWatch ==
  /\ pc = "monitor"
  /\ MonitorNextKeys # {}
  /\ \E current_data \in Groups(SetMin(MonitorNextKeys), market_close_utc) :
       LET timestamp == SetMin(MonitorNextKeys)
           exit_result == MonitorStep(spread[1], current_data)
       IN /\ scan' = timestamp
          /\ eval_metrics' = calculate_current_spread_metrics(spread[1], current_data)
          /\ eval_exit' = exit_result
          /\ watched' = Append(watched, Visit(spread[1], timestamp, current_data))
          /\ IF exit_result = None
             THEN pc' = "monitor" /\ results' = results
             ELSE /\ pc' = "returned"
                  /\ results' = <<TradeOutcome(exit_result[1], spread[1],
                                               timestamp, iteration)>>
  /\ UNCHANGED <<findervars, tape, outcomes, px, found, eval_data, cfg, keys,
                 market_close_utc, current_start_time, iteration, reason,
                 group_und, seen, short_put, long_put, spread>>

\* the loop is over and nothing has fired: the expiration block
TradeExpire ==
  /\ pc = "monitor"
  /\ MonitorNextKeys = {}
  /\ pc' = "returned"
  /\ results' = <<ExpiredOutcome(spread[1], FilteredKeys, iteration)>>
  /\ UNCHANGED <<auxvars, evalvars, cfg, keys, market_close_utc,
                 current_start_time, iteration, reason, scan, group_und, seen,
                 short_put, long_put, spread>>

TradeNext == TradeEnter \/ TradeWatch \/ TradeExpire

TradeSpec == TradeInit /\ [][TradeNext]_vars


\* ------------------------------------------------- properties of EvalSpec
EvalDone == pc = "eval_done"
Evaluated == EvalDone /\ eval_metrics # None
EvalStatus == IF eval_exit = None THEN "open" ELSE eval_exit[1].status
\* the three exit conditions, written from the metrics and the entry snapshot
TargetProfitHolds ==
  eval_metrics[1].current_spread_price * 100
    <= spread[1].credit_received * TargetProfitPct
DeltaStopHolds ==
  (Abs(eval_metrics[1].current_short_delta)
     - Abs(eval_metrics[1].current_long_delta)) * 10
    >= (Abs(spread[1].short_leg.delta) - Abs(spread[1].long_leg.delta))
         * StopLossTenths
AssignmentHolds ==
  eval_metrics[1].current_underlying_price <= spread[1].short_leg.strike_price

\* C1: at an evaluated timestamp the status is target_profit whenever the
\* spread price is at or below the target price, whatever the other two
\* conditions say; delta_stop_loss is returned only when the target
\* condition is false, assignment_risk only when both earlier ones are false.
C1_ExitPriority ==
  Evaluated =>
    /\ TargetProfitHolds => EvalStatus = "target_profit"
    /\ EvalStatus = "delta_stop_loss" => ~ TargetProfitHolds
    /\ EvalStatus = "assignment_risk" => ~ TargetProfitHolds /\ ~ DeltaStopHolds

\* target-profit and delta-stop-loss both hold, and target_profit is returned
C1_Witness ==
  /\ Evaluated
  /\ TargetProfitHolds
  /\ DeltaStopHolds
  /\ EvalStatus = "target_profit"

\* C6: an evaluated timestamp with current_spread_price <= credit_received
\* * target fraction gives status target_profit and theoretical_pnl =
\* (credit_received - current_spread_price) * 100; credit 1.20, fraction 0.5
\* and spread price 0.55 give target_profit with pnl 65.00.
C6_TargetProfitPayoff ==
  Evaluated =>
    /\ TargetProfitHolds =>
         /\ eval_exit # None
         /\ eval_exit[1].status = "target_profit"
         /\ eval_exit[1].theoretical_pnl =
              (spread[1].credit_received
                 - eval_metrics[1].current_spread_price) * 100
    /\ (/\ spread[1].credit_received = 120
        /\ eval_metrics[1].current_spread_price = 55) =>
         /\ eval_exit # None
         /\ eval_exit[1].status = "target_profit"
         /\ eval_exit[1].theoretical_pnl = 6500

\* the scenario: credit 1.20, width 3.00, later spread price 0.55
C6_Witness ==
  /\ Evaluated
  /\ spread[1].credit_received = 120
  /\ spread[1].spread_width = 300
  /\ eval_metrics[1].current_spread_price = 55
  /\ eval_exit # None
  /\ eval_exit[1].theoretical_pnl = 6500

TicksOf(group, symbol) ==
  {i \in DOMAIN group : group[i].option_symbol = symbol}
\* what the code's scan of the group selected
EvalPrices == FindCurrentPrices(spread[1], eval_data, 1, NoPrices)
\* a delta computation fails at this timestamp (the prices being there)
EvalDeltaFails ==
  \/ calculate_delta(EvalPrices.short_ivd, spread[1].short_leg.strike_price,
                     spread[1].short_leg.expiration_date,
                     EvalPrices.current_underlying_price[1], "put",
                     eval_data[1].timestamp) = None
  \/ calculate_delta(EvalPrices.long_ivd, spread[1].long_leg.strike_price,
                     spread[1].long_leg.expiration_date,
                     EvalPrices.current_underlying_price[1], "put",
                     eval_data[1].timestamp) = None

\* C8: a timestamp is skipped exactly when a leg's mid-price or the
\* underlying price is unavailable in the group or a delta computation
\* fails; a group carrying a mid-price for both legs (any number, 0
\* included) and an underlying price, with both deltas computed, is evaluated.
C8_SkipRule ==
  EvalDone =>
    (eval_metrics = None <=>
       \/ TicksOf(eval_data, spread[1].short_leg.option_symbol) = {}
       \/ TicksOf(eval_data, spread[1].long_leg.option_symbol) = {}
       \/ EvalPrices.current_underlying_price = None
       \/ EvalDeltaFails)

\* the underlying price the claim prescribes: the short leg's tick's when
\* that tick has one, otherwise the long leg's tick's
PrescribedUnderlying ==
  LET st == {i \in TicksOf(eval_data, spread[1].short_leg.option_symbol) :
               eval_data[i].underlying_close # None}
      lt == {i \in TicksOf(eval_data, spread[1].long_leg.option_symbol) :
               eval_data[i].underlying_close # None}
  IN IF st # {} THEN eval_data[CHOOSE i \in st : TRUE].underlying_close
     ELSE IF lt # {} THEN eval_data[CHOOSE i \in lt : TRUE].underlying_close
     ELSE None

\* C9: for every order of the ticks in a group the underlying price used is
\* the short leg's tick's when it has one and otherwise the long leg's
\* tick's; it is missing only when neither leg's tick carries one.
C9_UnderlyingSelection ==
  EvalDone => EvalPrices.current_underlying_price = PrescribedUnderlying


\* -------------------------------------------------- properties of TradeSpec
Returned == pc = "returned"
WatchedTimes == {watched[i].timestamp : i \in DOMAIN watched}
Fired(i) == watched[i].available /\ watched[i].fires

\* C22: a trade that does not expire exits at the earliest timestamp after
\* entry_timestamp at which metrics are available and an exit condition
\* holds; no timestamp at or before entry_timestamp is evaluated, none
\* after entry is passed over, and none is examined after the exit.
C22_FirstExit ==
  /\ [](spread # None =>
          /\ \A i \in DOMAIN watched :
               watched[i].timestamp > spread[1].entry_timestamp
          /\ \A i, j \in DOMAIN watched :
               i < j => watched[i].timestamp < watched[j].timestamp
          /\ Len(watched) > 0 =>
               WatchedTimes =
                 {t \in keys : /\ t > spread[1].entry_timestamp
                               /\ t <= watched[Len(watched)].timestamp}
          /\ \A i \in 1..(Len(watched) - 1) : ~ Fired(i)
          /\ (pc = "monitor" /\ Len(watched) > 0) => ~ Fired(Len(watched)))
  /\ [](Returned =>
          /\ IF results[1].status # "expired"
             THEN /\ Len(watched) > 0
                  /\ results[1].exit_time = watched[Len(watched)].timestamp
                  /\ Fired(Len(watched))
             ELSE /\ \A i \in DOMAIN watched : ~ Fired(i)
                  /\ WatchedTimes =
                       {t \in keys : t > spread[1].entry_timestamp}
          /\ ~ ENABLED TradeNext)

\* an exit at the second timestamp after entry, the first one having been
\* evaluated without any condition holding
C22_Witness ==
  /\ Returned
  /\ results[1].status # "expired"
  /\ Len(watched) = 2
  /\ watched[1].available
  /\ ~ watched[1].fires
  /\ results[1].exit_time = watched[2].timestamp

\* the metrics of the timestamp evaluated last, and what the exit test said
TradeEvaluated == spread # None /\ eval_metrics # None
TradeStatus == IF eval_exit = None THEN "open" ELSE eval_exit[1].status
AboveTarget ==
  eval_metrics[1].current_spread_price * 100
    > spread[1].credit_received * TargetProfitPct
AtDeltaStop ==
  (Abs(eval_metrics[1].current_short_delta)
     - Abs(eval_metrics[1].current_long_delta)) * 10
    >= (Abs(spread[1].short_leg.delta) - Abs(spread[1].long_leg.delta))
         * StopLossTenths

\* C23: the two thresholds are initial_total_delta * multiplier and
\* credit_received * fraction of the entry snapshot and stay the same at
\* every timestamp of the trade; an evaluated timestamp gives
\* delta_stop_loss exactly when the spread price is above the target price
\* and |short delta| - |long delta| is at least the stop-loss threshold, and
\* then theoretical_pnl = (credit_received - current_spread_price) * 100.
C23_DeltaStopLoss ==
  /\ [](spread # None =>
          /\ DeltaStopLoss10(spread[1]) =
               (Abs(spread[1].short_leg.delta) - Abs(spread[1].long_leg.delta))
                 * StopLossTenths
          /\ TargetProfitPrice100(spread[1]) =
               spread[1].credit_received * TargetProfitPct)
  /\ [][(spread # None /\ spread' # None) =>
          /\ spread' = spread
          /\ DeltaStopLoss10(spread[1])' = DeltaStopLoss10(spread[1])
          /\ TargetProfitPrice100(spread[1])' = TargetProfitPrice100(spread[1])]_vars
  /\ [](TradeEvaluated =>
          /\ TradeStatus = "delta_stop_loss" <=> (AboveTarget /\ AtDeltaStop)
          /\ TradeStatus = "delta_stop_loss" =>
               eval_exit[1].theoretical_pnl =
                 (spread[1].credit_received
                    - eval_metrics[1].current_spread_price) * 100)

\* a delta stop-loss at the second timestamp after entry, at a loss
C23_Witness ==
  /\ Returned
  /\ Len(watched) = 2
  /\ TradeEvaluated
  /\ results[1].status = "delta_stop_loss"
  /\ AboveTarget
  /\ AtDeltaStop
  /\ results[1].theoretical_pnl < 0
  /\ results[1].theoretical_pnl =
       (spread[1].credit_received - eval_metrics[1].current_spread_price) * 100

\* ----------------------------------------------------- properties of Spec
LastOutcome == results[Len(results)]

\* C2: each trade's entry_time is strictly greater than the previous trade's
\* exit_time; the next search reads only minutes at or after exit_time + 1
\* minute and no leg of a later trade comes from a tick at or before the
\* previous exit.
C2_DisjointTrades ==
  /\ \A i \in 2..Len(results) :
       results[i].entry_time > results[i - 1].exit_time
  /\ Len(results) > 0 =>
       /\ pc = "find" /\ scan # 0 => scan >= LastOutcome.exit_time + 1
       /\ short_put # None => short_put[1].timestamp > LastOutcome.exit_time
       /\ long_put # None => long_put[1].timestamp > LastOutcome.exit_time
       /\ spread # None =>
            /\ spread[1].short_leg.timestamp > LastOutcome.exit_time
            /\ spread[1].long_leg.timestamp > LastOutcome.exit_time
            /\ spread[1].entry_timestamp > LastOutcome.exit_time

\* a run that has recorded two trades
C2_Witness ==
  /\ Len(results) >= 2
  /\ results[2].entry_time > results[1].exit_time

\* C3: every spread find_spread returns has spread_width = |short strike -
\* long strike| and a width inside the configured range.
C3_WidthInvariant ==
  spread # None =>
    /\ spread[1].spread_width =
         Abs(spread[1].short_leg.strike_price - spread[1].long_leg.strike_price)
    /\ cfg.spread_width_range[1] <= spread[1].spread_width
    /\ spread[1].spread_width <= cfg.spread_width_range[2]

\* a spread of width 3.00 returned under the default range (2, 4)
C3_Witness ==
  /\ pc = "monitor"
  /\ spread # None
  /\ spread[1].spread_width = 300
  /\ cfg.spread_width_range = DefaultWidthRange

RankTime ==
  IF pc = "start" THEN 0
  ELSE IF pc = "loop" THEN current_start_time
  ELSE IF pc = "find" THEN (IF scan = 0 THEN current_start_time ELSE scan)
  ELSE IF pc = "monitor"
       THEN (IF scan = 0 THEN spread[1].entry_timestamp ELSE scan)
  ELSE MaxT + 2
RankPhase ==
  IF pc = "find" THEN 1 + (IF scan = 0 THEN 0 ELSE Cardinality(seen))
  ELSE IF pc = "monitor" THEN 2 + Cardinality(Symbols)
  ELSE 0
\* a measure of the work left that mentions neither iteration nor the cap
Rank ==
  IF pc = "done" THEN 0
  ELSE (MaxT + 2 - RankTime) * (4 + Cardinality(Symbols)) - RankPhase

\* C5: run() terminates: every step lowers Rank, a natural number that is 0
\* only when run() is done, and until then some step can be taken (so under
\* weak fairness every run ends, with or without the cap); the loop is left
\* only at the cap, on an empty sub-stream or when the finder returns
\* nothing; the cursor strictly increases on every completed iteration.
C5_Termination ==
  /\ [][Rank' < Rank]_vars
  /\ [](/\ Rank >= 0
        /\ Rank = 0 <=> pc = "done"
        /\ pc # "done" => ENABLED Next)
  /\ [](pc = "done" =>
          /\ reason \in {"no_data", "cap", "no_more_data", "no_spread"}
          /\ reason = "no_data" => keys = {}
          /\ reason = "cap" => iteration > cfg.max_iterations
          /\ reason = "no_more_data" =>
               /\ iteration <= cfg.max_iterations
               /\ {t \in keys : t >= current_start_time} = {}
          /\ reason = "no_spread" =>
               /\ iteration <= cfg.max_iterations
               /\ {t \in keys : t >= current_start_time} # {}
               /\ spread = None)
  /\ [][Len(results') = Len(results) + 1 =>
          current_start_time' > current_start_time]_vars

\* a run that ended below its cap after recording a trade
C5_Witness ==
  /\ pc = "done"
  /\ Len(results) >= 1
  /\ iteration <= cfg.max_iterations

\* C7: when the monitor loop has no timestamp left after entry and no exit
\* has fired, the outcome is expired with theoretical_pnl = credit_received
\* * 100 and exit_time the greatest timestamp of the sub-stream.
C7_ExpiryOutcome ==
  [][(/\ pc = "monitor"
      /\ {t \in keys : /\ t >= current_start_time
                       /\ t > scan
                       /\ t > spread[1].entry_timestamp} = {})
     => /\ Len(results') = Len(results) + 1
        /\ results'[Len(results')].status = "expired"
        /\ results'[Len(results')].theoretical_pnl =
             spread[1].credit_received * 100
        /\ results'[Len(results')].exit_time =
             SetMax({t \in keys : t >= current_start_time})
        /\ results'[Len(results')].entry_time = spread[1].entry_timestamp]_vars

\* an expired trade that outlived timestamps after its entry
C7_Witness ==
  /\ Len(results) >= 1
  /\ LastOutcome.status = "expired"
  /\ LastOutcome.exit_time > LastOutcome.entry_time
  /\ LastOutcome.theoretical_pnl = LastOutcome.credit_received * 100

\* C10: when find_spread exhausts the sub-stream it returns None without
\* raising; run() stops and its outcomes are those accumulated before,
\* unchanged and in order.
C10_NoMatch ==
  [][(pc = "find" /\ pc' # "find" /\ spread' = None)
     => /\ pc' = "done"
        /\ reason' = "no_spread"
        /\ results' = results]_vars

\* a run stopped by a failed search after recording a trade
C10_Witness ==
  /\ pc = "done"
  /\ reason = "no_spread"
  /\ Len(results) >= 1

\* C28: run() records at most max_iterations outcomes, none when
\* max_iterations <= 0 or the stream is empty, and the outcomes carry the
\* iteration numbers 1, 2, ..., n in append order.
C28_IterationCap ==
  /\ Len(results) <= (IF cfg.max_iterations > 0 THEN cfg.max_iterations ELSE 0)
  /\ keys = {} => Len(results) = 0
  /\ \A i \in DOMAIN results : results[i].iteration = i

\* a run stopped by its cap of at least two iterations
C28_Witness ==
  /\ pc = "done"
  /\ reason = "cap"
  /\ Len(results) >= 2
  /\ Len(results) = cfg.max_iterations
  /\ results[2].iteration = 2

\* C29: an expired outcome is the last outcome of a run: its exit_time is
\* the greatest timestamp of the stream, the cursor after it lies past every
\* timestamp, and run() neither searches nor monitors again.
C29_ExpiredIsLast ==
  \A i \in DOMAIN results :
    results[i].status = "expired" =>
      /\ i = Len(results)
      /\ results[i].exit_time = SetMax(keys)
      /\ \A t \in keys : current_start_time > t
      /\ pc \in {"loop", "done"}
      /\ spread = None
      /\ pc = "done" => reason \in {"cap", "no_more_data"}

\* a run that ended below its cap because its trade expired, minutes after
\* its entry
C29_Witness ==
  /\ pc = "done"
  /\ reason = "no_more_data"
  /\ Len(results) >= 1
  /\ results[Len(results)].status = "expired"
  /\ results[Len(results)].exit_time > results[Len(results)].entry_time
  /\ iteration <= cfg.max_iterations

\* C30: every outcome has exit_time >= entry_time >= the cursor of its
\* iteration; exit_time > entry_time for target_profit, delta_stop_loss and
\* assignment_risk; exit_time = entry_time exactly for an expired trade
\* entered at the last timestamp of the stream.
C30_TimeOrder ==
  /\ [][Len(results') = Len(results) + 1 =>
          LET o == results'[Len(results')] IN
          /\ o.exit_time >= o.entry_time
          /\ o.entry_time >= current_start_time
          /\ o.status \in {"target_profit", "delta_stop_loss", "assignment_risk"}
               => o.exit_time > o.entry_time
          /\ o.exit_time = o.entry_time <=>
               (o.status = "expired" /\ o.entry_time = SetMax(keys))]_vars
  /\ [](\A i \in DOMAIN results :
          /\ results[i].exit_time >= results[i].entry_time
          /\ results[i].status \in
               {"target_profit", "delta_stop_loss", "assignment_risk", "expired"})

\* a second trade entered at the last timestamp, after the cursor had
\* moved, and expired there
C30_Witness ==
  /\ Len(results) = 2
  /\ results[1].exit_time > results[1].entry_time
  /\ results[2].status = "expired"
  /\ results[2].exit_time = results[2].entry_time
  /\ results[2].entry_time = SetMax(keys)
  /\ results[2].entry_time = results[1].exit_time + 1

\* a call of _execute_single_trade returns to run()
CallReturns == pc \in {"find", "monitor"} /\ pc' \in {"loop", "done"}
Statuses == {"target_profit", "delta_stop_loss", "assignment_risk", "expired"}

\* C31: every Spread found yields exactly one outcome. A call of
\* _execute_single_trade returns "no trade" if and only if find_spread
\* returned nothing; once a Spread is found the call always returns an
\* outcome of that Spread whose status is target_profit, delta_stop_loss,
\* assignment_risk or expired; the number of outcomes of a run equals the
\* number of Spreads found.
C31_OneOutcomePerSpread ==
  /\ [](Len(results) + (IF spread # None THEN 1 ELSE 0) = found)
  /\ [](spread # None <=> pc = "monitor")
  /\ [](pc = "monitor" => ENABLED (MonitorTimestamp \/ Expire))
  /\ [](pc = "done" =>
          /\ Len(results) = found
          /\ \A i \in DOMAIN results : results[i].status \in Statuses)
  /\ [][/\ CallReturns =>
            /\ (results' = results /\ reason' = "no_spread") <=> spread = None
            /\ spread # None =>
                 (/\ Len(results') = Len(results) + 1
                  /\ results'[Len(results')].status \in Statuses
                  /\ results'[Len(results')].entry_time = spread[1].entry_timestamp
                  /\ results'[Len(results')].short_put_symbol
                       = spread[1].short_leg.option_symbol
                  /\ results'[Len(results')].long_put_symbol
                       = spread[1].long_leg.option_symbol
                  /\ \A i \in DOMAIN results : results'[i] = results[i])
        /\ results' # results => CallReturns
        /\ found' # found => (pc = "find" /\ spread = None /\ spread' # None)]_vars

\* a run whose first call found a Spread and returned its outcome and
\* whose second call found nothing and returned "no trade"
C31_Witness ==
  /\ pc = "done"
  /\ reason = "no_spread"
  /\ found = 1
  /\ Len(results) = 1
  /\ results[1].status \in {"target_profit", "delta_stop_loss", "assignment_risk"}

\* ------------------------------------------------ properties of FinderSpec
\* a step of the scan, and the tick it examined
TickStep == last_tick' # last_tick
Examining == last_tick'[1]
LongInsideShort ==
  /\ cfg.short_put_delta_range[1] <= cfg.long_put_delta_range[1]
  /\ cfg.long_put_delta_range[2] <= cfg.short_put_delta_range[2]
SlotState ==
  IF spread # None THEN "VALID"
  ELSE IF short_put = None /\ long_put = None THEN "SEARCHING"
  ELSE IF long_put = None THEN "SHORT_SET"
  ELSE IF short_put = None THEN "LONG_SET"
  ELSE "BOTH_SET"
LegKey(leg) == <<leg.option_symbol, leg.timestamp>>
FreshAs(slot) == {<<e[1], e[2]>> : e \in {f \in fresh : f[3] = slot}}

\* C11: a tick whose underlying price is absent or whose delta computation
\* fails leaves both slots unchanged and is no leg; the scan goes on with the
\* next tick (or ends at the end of the sub-stream) and nothing is raised.
C11_FinderSkipRule ==
  /\ [][(TickStep /\ ~ Examined(Examining)) =>
          /\ short_put' = short_put
          /\ long_put' = long_put
          /\ spread' = None
          /\ pc' = "find"]_vars
  /\ [](pc = "find" => ENABLED FinderNext)

\* the short slot survived a tick skipped for a failed delta computation
C11_Witness ==
  /\ pc = "find"
  /\ last_tick # None
  /\ last_tick[1].underlying_close # None
  /\ TickDelta(last_tick[1]) = None
  /\ short_put # None
  /\ short_put[1].timestamp < last_tick[1].timestamp

\* C17 as stated: a tick whose delta lies in both bands is never given to
\* the long slot, whatever the slots hold.
C17_TieBreakAnySlots ==
  [][(TickStep /\ InShortBand(Examining) /\ InLongBand(Examining)) =>
       /\ long_put' # Some(TickLeg(Examining))
       /\ spread' # None => spread'[1].long_leg # TickLeg(Examining)]_vars

\* C17 (amended): a tick whose delta lies in both bands is given to the
\* short slot and not to the long slot when the short slot is empty; when
\* the short slot is populated it is given to the long slot.
C17_TieBreak ==
  [][(TickStep /\ InShortBand(Examining) /\ InLongBand(Examining)) =>
       /\ short_put = None =>
            /\ long_put' # Some(TickLeg(Examining))
            /\ spread' # None =>
                 /\ spread'[1].short_leg = TickLeg(Examining)
                 /\ spread'[1].long_leg # TickLeg(Examining)
            /\ (spread' = None /\ long_put = None) =>
                 short_put' = Some(TickLeg(Examining))
       /\ short_put # None =>
            /\ spread' # None =>
                 /\ spread'[1].long_leg = TickLeg(Examining)
                 /\ spread'[1].short_leg = short_put[1]
            /\ spread' = None => short_put' = None /\ long_put' = None]_vars

\* a spread whose two legs both came from ticks with a delta in both bands
C17_Witness ==
  /\ spread # None
  /\ last_tick # None
  /\ InShortBand(last_tick[1])
  /\ InLongBand(last_tick[1])
  /\ spread[1].long_leg = TickLeg(last_tick[1])
  /\ InRange(cfg.long_put_delta_range, spread[1].short_leg.delta)

\* C18 as stated: for every configuration of the bands the long slot is
\* never populated while the short slot is empty.
C18_NoLongWithoutShortAnyBands == ~ (long_put # None /\ short_put = None)

\* C18 (amended): when the long band lies inside the short band the slots
\* move only SEARCHING -> SHORT_SET -> (both set) -> VALID, or back to
\* SEARCHING on a width mismatch, and the long slot is never populated
\* while the short slot is empty.
C18_StateMachine ==
  /\ [](LongInsideShort => SlotState \in {"SEARCHING", "SHORT_SET", "VALID"})
  /\ [][(LongInsideShort /\ TickStep) =>
          /\ <<SlotState, SlotState'>> \in
                {<<"SEARCHING", "SEARCHING">>, <<"SEARCHING", "SHORT_SET">>,
                 <<"SHORT_SET", "SHORT_SET">>, <<"SHORT_SET", "VALID">>,
                 <<"SHORT_SET", "SEARCHING">>}
          /\ (SlotState = "SHORT_SET" /\ SlotState' = "SEARCHING") =>
               WidthMismatch(Examining, short_put, long_put)
          /\ (SlotState = "SHORT_SET" /\ SlotState' = "VALID") =>
               /\ PairAfter(Examining, short_put, long_put).long # None
               /\ ~ WidthMismatch(Examining, short_put, long_put)]_vars

\* a spread returned, after a reset, under bands with the long inside the short
C18_Witness ==
  /\ LongInsideShort
  /\ SlotState = "VALID"
  /\ fresh # {}
  /\ \A e \in fresh : e[2] > SetMin(keys)

\* C19: when both slots are populated after an assignment and the width is
\* outside the range, both slots are emptied before the next tick is
\* examined; every candidate and every leg of the returned spread comes from
\* a tick examined after the last such reset.
C19_FullReset ==
  /\ [][(TickStep /\ WidthMismatch(Examining, short_put, long_put)) =>
          /\ short_put' = None
          /\ long_put' = None
          /\ spread' = None
          /\ pc' = "find"]_vars
  /\ [](/\ short_put # None => LegKey(short_put[1]) \in FreshAs("short")
        /\ long_put # None => LegKey(long_put[1]) \in FreshAs("long")
        /\ spread # None =>
             /\ LegKey(spread[1].short_leg) \in FreshAs("short")
             /\ LegKey(spread[1].long_leg) \in FreshAs("long"))

\* a spread returned after a reset: no tick of the first minute is left in
\* the record
C19_Witness ==
  /\ spread # None
  /\ cfg.spread_width_range = DefaultWidthRange
  /\ \A e \in fresh : e[2] > SetMin(keys)

ValidPairing(tick, short, long) ==
  LET p == PairAfter(tick, short, long) IN
  /\ Examined(tick)
  /\ p.short # None
  /\ p.long # None
  /\ ~ WidthMismatch(tick, short, long)

\* C21: find_spread returns at the first tick after whose assignment both
\* slots are populated with a width in range, with that pair and that tick's
\* timestamp; it examines no tick after it; and while the scan goes on no
\* earlier tick has left both slots populated.
C21_FirstValidPairing ==
  /\ [][TickStep =>
          IF ValidPairing(Examining, short_put, long_put)
          THEN /\ spread' # None
               /\ Some(spread'[1].short_leg) =
                    PairAfter(Examining, short_put, long_put).short
               /\ Some(spread'[1].long_leg) =
                    PairAfter(Examining, short_put, long_put).long
               /\ spread'[1].entry_timestamp = Examining.timestamp
               /\ pc' # "find"
          ELSE spread' = None /\ pc' = "find"]_vars
  /\ [](spread # None => pc # "find" /\ ~ ENABLED FinderNext)
  /\ [](pc = "find" => spread = None /\ (short_put = None \/ long_put = None))

\* a spread returned at the third tick examined since the slots were empty,
\* with ticks of the stream left unexamined
C21_Witness ==
  /\ spread # None
  /\ Cardinality(fresh) >= 3
  /\ spread[1].entry_timestamp = last_tick[1].timestamp
  /\ \E t \in keys : t > last_tick[1].timestamp

\* C25: in every spread find_spread returns the short leg's strike is
\* strictly higher than the long leg's.
C25_BullPutStructure ==
  spread # None =>
    spread[1].short_leg.strike_price > spread[1].long_leg.strike_price

\* a leg the step created is a snapshot of the tick examined
MadeFrom(leg, tick) ==
  /\ leg.option_symbol = tick.option_symbol
  /\ leg.timestamp = tick.timestamp
  /\ leg.option_price = tick.midpoint
  /\ leg.strike_price = tick.strike_price
  /\ leg.underlying_price = tick.underlying_close[1]
  /\ leg.expiration_date = tick.expiry
  /\ Some(leg.delta) = TickDelta(tick)

\* C26: every returned spread has credit_received = short leg's price -
\* long leg's price, each price being the mid-price of the tick that created
\* the leg; there is no sign test: whatever the sign of the credit the
\* spread is returned and handed to the monitor loop.
C26_CreditDefinition ==
  /\ [](spread # None =>
          /\ spread[1].credit_received =
               spread[1].short_leg.option_price - spread[1].long_leg.option_price
          /\ pc = "monitor")
  /\ [][TickStep =>
          /\ (short_put' # None /\ short_put' # short_put) =>
               short_put'[1].option_price = Examining.midpoint
          /\ (long_put' # None /\ long_put' # long_put) =>
               long_put'[1].option_price = Examining.midpoint
          /\ spread' # None =>
               /\ \/ Some(spread'[1].short_leg) = short_put
                  \/ /\ short_put = None
                     /\ spread'[1].short_leg.option_price = Examining.midpoint
               /\ \/ Some(spread'[1].long_leg) = long_put
                  \/ spread'[1].long_leg.option_price = Examining.midpoint
               /\ \/ LegKey(spread'[1].short_leg) = LegKey(TickLeg(Examining))
                  \/ LegKey(spread'[1].long_leg) = LegKey(TickLeg(Examining))]_vars
  /\ [][(TickStep /\ ValidPairing(Examining, short_put, long_put)) =>
          spread' # None]_vars

\* a spread returned with a negative credit, its legs from different minutes
C26_Witness ==
  /\ spread # None
  /\ pc = "monitor"
  /\ spread[1].credit_received < 0
  /\ spread[1].credit_received =
       spread[1].short_leg.option_price - spread[1].long_leg.option_price
  /\ spread[1].short_leg.timestamp # spread[1].long_leg.timestamp

\* the leg of the returned spread that the last tick examined created
CompletedBy(leg) ==
  /\ LegKey(leg) = LegKey(TickLeg(last_tick[1]))
  /\ leg.option_price = last_tick[1].midpoint

\* C32: in every returned Spread both legs' capture timestamps are <=
\* entry_timestamp, and entry_timestamp is the timestamp of the tick that
\* completed the pair, which is the later-captured leg; the legs may come
\* from different timestamps, the credit then combining mid-prices observed
\* at different times.
C32_LegTiming ==
  spread # None =>
    LET s == spread[1] IN
    /\ s.short_leg.timestamp <= s.entry_timestamp
    /\ s.long_leg.timestamp <= s.entry_timestamp
    /\ s.entry_timestamp = last_tick[1].timestamp
    /\ CompletedBy(s.short_leg) \/ CompletedBy(s.long_leg)
    /\ s.entry_timestamp
         = (IF s.short_leg.timestamp >= s.long_leg.timestamp
            THEN s.short_leg.timestamp ELSE s.long_leg.timestamp)
    /\ s.short_leg.timestamp > s.long_leg.timestamp => CompletedBy(s.short_leg)
    /\ s.long_leg.timestamp > s.short_leg.timestamp => CompletedBy(s.long_leg)

\* a spread whose long leg was captured a minute or more before the short
\* leg that completed it, at another mid-price
C32_Witness ==
  /\ spread # None
  /\ spread[1].long_leg.timestamp < spread[1].short_leg.timestamp
  /\ spread[1].entry_timestamp = spread[1].short_leg.timestamp
  /\ spread[1].short_leg.option_price # spread[1].long_leg.option_price
  /\ spread[1].credit_received > 0

\* C35: every Spread returned by find_spread has initial_total_delta =
\* |short_leg.delta| - |long_leg.delta| > 0, so that with a multiplier >= 1
\* a delta_stop_loss exit implies a current total delta at least as large
\* as the entry-time total delta.
C35_PositiveStopLossBasis ==
  spread # None =>
    /\ initial_total_delta(spread[1])
         = Abs(spread[1].short_leg.delta) - Abs(spread[1].long_leg.delta)
    /\ initial_total_delta(spread[1]) > 0

\* C27: in every returned spread the short leg's delta lies in the short
\* band and the long leg's delta in the long band, ends included; a leg is
\* the snapshot of the tick that created it, delta included, and no field
\* of a leg changes afterwards.
C27_LegQualification ==
  /\ [](/\ short_put # None =>
             /\ cfg.short_put_delta_range[1] <= short_put[1].delta
             /\ short_put[1].delta <= cfg.short_put_delta_range[2]
        /\ long_put # None =>
             /\ cfg.long_put_delta_range[1] <= long_put[1].delta
             /\ long_put[1].delta <= cfg.long_put_delta_range[2]
        /\ spread # None =>
             /\ cfg.short_put_delta_range[1] <= spread[1].short_leg.delta
             /\ spread[1].short_leg.delta <= cfg.short_put_delta_range[2]
             /\ cfg.long_put_delta_range[1] <= spread[1].long_leg.delta
             /\ spread[1].long_leg.delta <= cfg.long_put_delta_range[2])
  /\ [][TickStep =>
          /\ short_put' # None =>
               \/ short_put' = short_put
               \/ short_put = None /\ MadeFrom(short_put'[1], Examining)
          /\ long_put' # None =>
               \/ long_put' = long_put
               \/ MadeFrom(long_put'[1], Examining)
          /\ spread' # None =>
               /\ \/ Some(spread'[1].short_leg) = short_put
                  \/ short_put = None /\ MadeFrom(spread'[1].short_leg, Examining)
               /\ \/ Some(spread'[1].long_leg) = long_put
                  \/ MadeFrom(spread'[1].long_leg, Examining)]_vars
  /\ [][(~ TickStep) => (short_put' = None /\ long_put' = None /\ spread' = spread)]_vars
  /\ [][(TickStep /\ Examined(Examining) /\ short_put = None
          /\ cfg.short_put_delta_range[1] <= TickDelta(Examining)[1]
          /\ TickDelta(Examining)[1] <= cfg.short_put_delta_range[2]
          /\ long_put = None) =>
            /\ short_put' # None
            /\ MadeFrom(short_put'[1], Examining)]_vars

\* a spread whose short leg's delta is exactly the upper end of the short
\* band
C27_Witness ==
  /\ spread # None
  /\ spread[1].short_leg.delta = cfg.short_put_delta_range[2]
  /\ spread[1].long_leg.delta > spread[1].short_leg.delta
  /\ spread[1].long_leg.timestamp > spread[1].short_leg.timestamp

\* ------------------------------------------------ properties of PayoffSpec
\* C34: when credit_received >= 0 and the target fraction lies in [0, 1],
\* every target_profit outcome has theoretical_pnl >= credit_received *
\* (1 - fraction) * 100 >= 0; with such a fraction a target_profit outcome
\* of negative theoretical_pnl occurs only for a Spread entered with
\* negative credit.
C34_TargetProfitSign ==
  (/\ Evaluated
   /\ EvalStatus = "target_profit"
   /\ 0 <= cfg.target_profit_pct
   /\ cfg.target_profit_pct <= 100) =>
    /\ spread[1].credit_received >= 0 =>
         /\ eval_exit[1].theoretical_pnl * 100
              >= spread[1].credit_received * (100 - cfg.target_profit_pct)
                   * ContractMultiplier
         /\ spread[1].credit_received * (100 - cfg.target_profit_pct)
              * ContractMultiplier >= 0
         /\ eval_exit[1].theoretical_pnl >= 0
    /\ eval_exit[1].theoretical_pnl < 0 => spread[1].credit_received < 0

\* a target exit of a spread of positive credit exactly at the target price
\* of fraction 0 or 1: the bound is met with equality
C34_Witness ==
  /\ Evaluated
  /\ EvalStatus = "target_profit"
  /\ spread[1].credit_received > 0
  /\ cfg.target_profit_pct \in {0, 100}
  /\ eval_exit[1].theoretical_pnl * 100
       = spread[1].credit_received * (100 - cfg.target_profit_pct)
           * ContractMultiplier

\* ---------------------------------------------- properties of SessionsSpec
\* C33: in every Spread that find_spread returns over a stream holding
\* ticks of more than one expiration, the short leg and the long leg have
\* the same expiry timestamp.
C33_SameExpiry ==
  spread # None =>
    spread[1].short_leg.expiration_date = spread[1].long_leg.expiration_date

\* --------------------------------------------------- properties of DetSpec
SameTrade(a, b) ==
  /\ a.status = b.status
  /\ a.theoretical_pnl = b.theoretical_pnl
  /\ a.entry_time = b.entry_time
  /\ a.exit_time = b.exit_time
  /\ a.credit_received = b.credit_received
  /\ a.spread_width = b.spread_width
  /\ a.short_put_symbol = b.short_put_symbol
  /\ a.long_put_symbol = b.long_put_symbol
BothCallsDone == pc = "done" /\ Len(outcomes) = 1

DeltaReturned == pc = "price_done" /\ px.call = "calculate_delta"
VolatilityReturned ==
  pc = "price_done" /\ px.call = "calculate_implied_volatility"

\* C13: with a time to expiry at or below the floor, calculate_delta runs
\* no implied-volatility inversion and returns exactly -1.0 for a put with
\* underlying < strike, 0.0 for a put with underlying >= strike, 1.0 for a
\* call with underlying > strike, 0.0 for a call with underlying <= strike,
\* and never 'unavailable'.
C13_ExpiryCollapse ==
  (DeltaReturned /\ px.ms <= TimeFloor) =>
    /\ ~ px.inverted
    /\ px.delta # None
    /\ (px.option_type = "put" /\ PricingUnderlying < px.strike_price) =>
         px.delta[1] = -10000
    /\ (px.option_type = "put" /\ PricingUnderlying >= px.strike_price) =>
         px.delta[1] = 0
    /\ (px.option_type = "call" /\ PricingUnderlying > px.strike_price) =>
         px.delta[1] = 10000
    /\ (px.option_type = "call" /\ PricingUnderlying <= px.strike_price) =>
         px.delta[1] = 0

\* a put in the money, exactly at the floor, priced at a value for which
\* the inversion would have been attempted: delta -1.0
C13_Witness ==
  /\ DeltaReturned
  /\ px.ms = TimeFloor
  /\ px.option_type = "put"
  /\ px.strike_price = 57000
  /\ px.option_price > intrinsic_value(PricingUnderlying, 57000, "put") + PriceEpsilon
  /\ px.delta = Some(-10000)

\* C14: the time to expiry calculate_delta uses is at least the floor, and
\* whenever the d1 formula is evaluated its denominator sigma * sqrt(T) is
\* not zero, for every volatility calculate_implied_volatility returns,
\* the 0.0 of a price at or below intrinsic + 1e-6 included.
C14_NoDivisionByZero ==
  DeltaReturned =>
    /\ px.T >= TimeFloor
    /\ px.d1_evaluated => ~ px.d1_denominator_zero

\* C15: every delta calculate_delta returns lies in [-1, 0] for a put and
\* in [0, 1] for a call.
C15_DeltaBounds ==
  (DeltaReturned /\ px.delta # None) =>
    IF px.option_type = "put"
    THEN -10000 <= px.delta[1] /\ px.delta[1] <= 0
    ELSE 0 <= px.delta[1] /\ px.delta[1] <= 10000

\* the price is the formula's price for the volatility x and exceeds the
\* intrinsic value by more than 1e-6
OnCurveAt(x) ==
  /\ px.option_price =
       BSPrice(x, px.strike_price, px.ms, px.r, px.option_type)
  /\ px.option_price >
       intrinsic_value(PricingUnderlying, px.strike_price, px.option_type)
         + PriceEpsilon
Recovered(x) ==
  /\ px.implied_volatility # None
  /\ Abs(px.implied_volatility[1] - x) <= 100

====
